---- MODULE Spec2Model ----
(***************************************************************************)
(* State-machine model of the trust-and-sandbox core of nanoclaw:          *)
(* the principal registry (user-registry.ts), the policy engine and the    *)
(* stranger gate (authorization.ts), the message-intake path and the       *)
(* file-based command channel (index.ts).                                  *)
(***************************************************************************)
EXTENDS Integers, Sequences, FiniteSets, TLC

VARIABLES
    registryFile,      \* data/users.json: [status, content]
    lastOp,            \* the last policy-engine call and what it returned
    registeredGroups,  \* index.ts registeredGroups, in insertion order
    lidToPhoneMap,     \* index.ts lidToPhoneMap
    strangerCache,     \* authorization.ts strangerCache
    now,               \* Date.now()
    pm,                \* the processMessage call in progress, or its outcome
    tasks,             \* the scheduled_tasks table
    nextTaskId,        \* the next fresh task id
    ipcFiles,          \* the command files in data/ipc/<namespace>/{messages,tasks}
    quarantine,        \* the files in data/ipc/errors
    fileSeq,           \* how many command files were written so far
    fileLog,           \* per command file: how often it was read, and whether that threw
    ipcLast,           \* the command file handled last and what was done with it
    ipcPass,           \* the position of the drain pass (processIpcFiles)
    gateCall,          \* the last direct hasStrangers call and what it returned
    notices,           \* per group: owner alerts sent since its cache entry was computed
    messages,          \* the messages table
    lastTimestamp,     \* index.ts lastTimestamp, the intake watermark
    lastAgentTimestamp,\* index.ts lastAgentTimestamp, per chat
    loop,              \* the position of the message loop (startMessageLoop)
    sched,             \* the position of the scheduler loop
    host,              \* the transport connection, the loop guards and the loops started
    run,               \* the runContainerAgent call under study, with the host
                       \* files its mount list is built from
    sessions,          \* index.ts sessions: the session id per group folder
    sessionsFile,      \* data/sessions.json
    agent,             \* the runAgent call in progress
    registryCache      \* the registry read cache of the caching user registry

memVars == <<sessions, sessionsFile, agent, registryCache>>
regVars == <<registryFile, lastOp>>
msgVars == <<registeredGroups, lidToPhoneMap, strangerCache, now, pm>>
ipcVars == <<tasks, nextTaskId, ipcFiles, quarantine, fileSeq, fileLog, ipcLast,
             ipcPass>>
loopVars == <<messages, lastTimestamp, lastAgentTimestamp, loop>>
extVars == <<gateCall, notices, messages, lastTimestamp, lastAgentTimestamp, loop,
             sched, host, run, memVars>>
vars == <<registryFile, lastOp, registeredGroups, lidToPhoneMap, strangerCache,
          now, pm, tasks, nextTaskId, ipcFiles, quarantine, fileSeq, fileLog,
          ipcLast, ipcPass, gateCall, notices, messages, lastTimestamp,
          lastAgentTimestamp, loop, sched, host, run, memVars>>

(***************************************************************************)
(* Identities.  A JID is "<local>[:<device>]@<domain>"; the model keeps    *)
(* the three parts apart so that normalisation is a real conversion.       *)
(***************************************************************************)
MaxUsers == 2

UserLocals == {"u1", "u2", "u3", "u4"}

Locals == {l \in UserLocals :
             \/ l = "u1"
             \/ l = "u2" /\ MaxUsers >= 2
             \/ l = "u3" /\ MaxUsers >= 3
             \/ l = "u4" /\ MaxUsers >= 4}

Jid(l, dev, dom) == [local |-> l, device |-> dev, domain |-> dom]

\* '' : the jid of the default registry's owner
NoJid == Jid("", "", "")

PhoneDomain == "s.whatsapp.net"

\* the user identities the transport can deliver: with and without a device suffix
UserJids == {Jid(l, d, PhoneDomain) : l \in Locals, d \in {"", "1"}}

\* a sender known to the transport under a LID address only
LidLocals == {"l1"}
LidJids == {Jid(l, "", "lid") : l \in LidLocals}

\* chats: group chats, one direct chat, and a chat that is never registered
GroupChatJids == {Jid("g1", "", "g.us"), Jid("g2", "", "g.us")}
DirectChatJid == Jid("u2", "", PhoneDomain)
UnregisteredChatJid == Jid("g9", "", "g.us")
ChatJids == GroupChatJids \cup {DirectChatJid, UnregisteredChatJid}

normalizeJid(jid) == [jid EXCEPT !.device = ""]

(***************************************************************************)
(* Principal registry                                                      *)
(***************************************************************************)
defaultRegistry == [owner |-> NoJid, family |-> <<>>, friends |-> <<>>]

\* loadJson with the bug of trusting a file it could not read or parse
loadJson_IgnoreErrors(file, defaultValue) == file.content

loadJson(file, defaultValue) ==
    IF file.status = "ok" THEN file.content ELSE defaultValue

loadUserRegistry == loadJson(registryFile, defaultRegistry)

SeqHas(s, nj) == \E i \in DOMAIN s : normalizeJid(s[i]) = nj

\* findIndex: the first index whose entry normalises to nj, 0 when none
FindIndex(s, nj) ==
    IF SeqHas(s, nj)
    THEN CHOOSE i \in DOMAIN s :
            /\ normalizeJid(s[i]) = nj
            /\ \A k \in DOMAIN s : normalizeJid(s[k]) = nj => i <= k
    ELSE 0

\* splice(i, 1)
Splice(s, i) == [k \in 1..(Len(s) - 1) |-> IF k < i THEN s[k] ELSE s[k + 1]]

\* the lookup with the device suffix of the stored entries left in place
getUserTierFromRegistry_NoNormalize(normalizedJid, registry) ==
    IF registry.owner # NoJid /\ registry.owner = normalizedJid THEN "owner"
    ELSE IF \E i \in DOMAIN registry.family : registry.family[i] = normalizedJid
         THEN "family"
    ELSE IF \E i \in DOMAIN registry.friends : registry.friends[i] = normalizedJid
         THEN "friend"
    ELSE "stranger"

getUserTierFromRegistry(normalizedJid, registry) ==
    IF registry.owner # NoJid /\ normalizeJid(registry.owner) = normalizedJid
    THEN "owner"
    ELSE IF SeqHas(registry.family, normalizedJid) THEN "family"
    ELSE IF SeqHas(registry.friends, normalizedJid) THEN "friend"
    ELSE "stranger"

getUserTier(jid) == getUserTierFromRegistry(normalizeJid(jid), loadUserRegistry)

\* what a registry call hands back: its return value ("throw" when it
\* raised) and users.json afterwards
Result(ret, file) == [ret |-> ret, file |-> file]

\* saveUserRegistry: temp file + rename, or a throw that leaves the file alone
saveUserRegistry(file, registry, saveOk, ret) ==
    IF saveOk THEN Result(ret, [status |-> "ok", content |-> registry])
    ELSE Result("throw", file)

\* initializeOwner without the check for an owner already set
initializeOwner_Overwrites(file, jid, saveOk) ==
    LET registry == loadJson(file, defaultRegistry) IN
    saveUserRegistry(file, [registry EXCEPT !.owner = normalizeJid(jid)],
                     saveOk, "ok")

initializeOwner(file, jid, saveOk) ==
    LET registry == loadJson(file, defaultRegistry) IN
    IF registry.owner # NoJid
    THEN Result("throw", file)
    ELSE saveUserRegistry(file, [registry EXCEPT !.owner = normalizeJid(jid)],
                          saveOk, "ok")

addUser(file, jid, tier, saveOk) ==
    LET normalizedJid == normalizeJid(jid)
        registry == loadJson(file, defaultRegistry)
        currentTier == getUserTierFromRegistry(normalizedJid, registry)
    IN
    IF currentTier # "stranger"
    THEN Result("false", file)
    ELSE saveUserRegistry(file,
            IF tier = "family"
            THEN [registry EXCEPT !.family = Append(@, normalizedJid)]
            ELSE [registry EXCEPT !.friends = Append(@, normalizedJid)],
            saveOk, "true")

removeUser(file, jid, saveOk) ==
    LET normalizedJid == normalizeJid(jid)
        registry == loadJson(file, defaultRegistry)
        familyIndex == FindIndex(registry.family, normalizedJid)
        friendIndex == FindIndex(registry.friends, normalizedJid)
    IN
    IF registry.owner # NoJid /\ normalizeJid(registry.owner) = normalizedJid
    THEN Result("throw", file)
    ELSE IF familyIndex # 0
    THEN saveUserRegistry(file,
            [registry EXCEPT !.family = Splice(@, familyIndex)], saveOk, "true")
    ELSE IF friendIndex # 0
    THEN saveUserRegistry(file,
            [registry EXCEPT !.friends = Splice(@, friendIndex)], saveOk, "true")
    ELSE Result("false", file)

getUsersByTier(tier) ==
    LET registry == loadUserRegistry IN
    IF tier = "owner"
    THEN IF registry.owner # NoJid THEN <<registry.owner>> ELSE <<>>
    ELSE IF tier = "family" THEN registry.family
    ELSE registry.friends

Op(op, jid, arg, ret) == [op |-> op, jid |-> jid, arg |-> arg, ret |-> ret]

\* the registry calls as steps of the host, their outcome kept in lastOp
CallInitializeOwner(jid, saveOk) ==
    LET r == initializeOwner(registryFile, jid, saveOk) IN
    /\ registryFile' = r.file
    /\ lastOp' = Op("initializeOwner", jid, "", r.ret)
    /\ UNCHANGED <<msgVars, ipcVars>>
    /\ UNCHANGED extVars

CallAddUser(jid, tier, saveOk) ==
    LET r == addUser(registryFile, jid, tier, saveOk) IN
    /\ registryFile' = r.file
    /\ lastOp' = Op("addUser", jid, tier, r.ret)
    /\ UNCHANGED <<msgVars, ipcVars>>
    /\ UNCHANGED extVars

CallRemoveUser(jid, saveOk) ==
    LET r == removeUser(registryFile, jid, saveOk) IN
    /\ registryFile' = r.file
    /\ lastOp' = Op("removeUser", jid, "", r.ret)
    /\ UNCHANGED <<msgVars, ipcVars>>
    /\ UNCHANGED extVars

\* the host's disk: users.json is lost, made unreadable or damaged
RegistryFileFails(how) ==
    /\ registryFile.status = "ok"
    /\ registryFile' = [status |-> how,
                        content |-> IF how = "absent" THEN defaultRegistry
                                    ELSE registryFile.content]
    /\ lastOp' = Op("fileFails", NoJid, how, "")
    /\ UNCHANGED <<msgVars, ipcVars>>
    /\ UNCHANGED extVars

(***************************************************************************)
(* Policy engine                                                           *)
(***************************************************************************)
\* canInvoke that also admits friends
canInvoke_FriendsToo(senderJid, isGroupChat) ==
    LET tier == getUserTier(normalizeJid(senderJid)) IN
    [tier |-> tier, canInvoke |-> tier \in {"owner", "family", "friend"}]

canInvoke(senderJid, isGroupChat) ==
    LET tier == getUserTier(normalizeJid(senderJid)) IN
    [tier |-> tier, canInvoke |-> tier = "owner" \/ tier = "family"]

contextPriority == <<"owner", "family", "friend">>

indexOf(s, x) == CHOOSE i \in DOMAIN s : s[i] = x

Max(a, b) == IF a >= b THEN a ELSE b

\* "unset": the group has no contextTier
NoTier == "unset"

\* the group override taken as it is, without the sender's constraint
determineAgentContext_Override(senderTier, groupContextTier) ==
    IF groupContextTier # NoTier THEN groupContextTier
    ELSE IF senderTier = "owner" THEN "owner"
    ELSE IF senderTier = "family" THEN "family"
    ELSE "friend"

determineAgentContext(senderTier, groupContextTier) ==
    LET inferredContextTier ==
            IF senderTier = "owner" THEN "owner"
            ELSE IF senderTier = "family" THEN "family"
            ELSE "friend"
    IN
    IF groupContextTier # NoTier
    THEN LET senderIndex == indexOf(contextPriority, inferredContextTier)
             groupIndex == indexOf(contextPriority, groupContextTier)
             effectiveIndex == Max(senderIndex, groupIndex)
         IN contextPriority[effectiveIndex]
    ELSE inferredContextTier

\* one call of the policy engine, its result kept in lastOp
QueryTier(jid) ==
    /\ lastOp' = Op("getUserTier", jid, "", getUserTier(jid))
    /\ UNCHANGED <<registryFile, msgVars, ipcVars>>
    /\ UNCHANGED extVars

QueryCanInvoke(jid) ==
    /\ lastOp' = Op("canInvoke", jid, canInvoke(jid, FALSE).tier,
                    IF canInvoke(jid, FALSE).canInvoke THEN "true" ELSE "false")
    /\ UNCHANGED <<registryFile, msgVars, ipcVars>>
    /\ UNCHANGED extVars

QueryContext(jid, groupContextTier) ==
    /\ lastOp' = Op("determineAgentContext", jid, groupContextTier,
                    determineAgentContext(getUserTier(jid), groupContextTier))
    /\ UNCHANGED <<registryFile, msgVars, ipcVars>>
    /\ UNCHANGED extVars

(***************************************************************************)
(* Stranger gate                                                           *)
(***************************************************************************)
CACHE_TTL == 300000

\* one step of the clock, and how many the model takes
TickMs == 150000
MaxTicks == 2

NoEntry == [present |-> FALSE, hasStrangers |-> FALSE, lastChecked |-> 0,
            participants |-> <<>>]

Range(s) == {s[i] : i \in DOMAIN s}

MapSeq(s) == [i \in DOMAIN s |-> normalizeJid(s[i])]

\* hasStrangers: the answer and the cache afterwards
hasStrangers(cache, groupJid, participants, forceRefresh, nowT) ==
    LET normalizedGroupJid == normalizeJid(groupJid)
        cached == cache[normalizedGroupJid]
        participantsChanged ==
            \/ Len(participants) # Len(cached.participants)
            \/ \E i \in DOMAIN participants :
                  normalizeJid(participants[i]) \notin Range(cached.participants)
        normalizedParticipants == MapSeq(participants)
        foundStranger ==
            \E i \in DOMAIN normalizedParticipants :
                getUserTier(normalizedParticipants[i]) = "stranger"
    IN
    IF /\ ~forceRefresh
       /\ cached.present
       /\ nowT - cached.lastChecked < CACHE_TTL
       /\ ~participantsChanged
    THEN [result |-> cached.hasStrangers, cache |-> cache, fresh |-> FALSE]
    ELSE [result |-> foundStranger,
          cache |-> [cache EXCEPT ![normalizedGroupJid] =
                        [present |-> TRUE, hasStrangers |-> foundStranger,
                         lastChecked |-> nowT,
                         participants |-> normalizedParticipants]],
          fresh |-> TRUE]

(***************************************************************************)
(* Message intake: processMessage                                          *)
(***************************************************************************)
MAIN_GROUP_FOLDER == "main"

Group(jid, folder, tier) == [jid |-> jid, folder |-> folder, contextTier |-> tier]

NoGroup == Group(NoJid, "", NoTier)

\* registeredGroups[jid]
GroupAt(groups, jid) ==
    IF \E i \in DOMAIN groups : groups[i].jid = jid
    THEN groups[CHOOSE i \in DOMAIN groups : groups[i].jid = jid]
    ELSE NoGroup

\* TRIGGER_PATTERN.test(content)
TriggerMatches(content) == content = "@Andy hello"

Contents == {"@Andy hello", "hello"}

translateJid(jid) ==
    IF jid.domain # "lid" THEN jid
    ELSE IF lidToPhoneMap[jid.local] # NoJid THEN lidToPhoneMap[jid.local]
    ELSE jid

Msg(chat, sender, content) ==
    [id |-> 0, chat_jid |-> chat, sender |-> sender, content |-> content,
     timestamp |-> 0]

NoMsg == Msg(NoJid, NoJid, "")

PmIdle == [pc |-> "idle", msg |-> NoMsg, group |-> NoGroup, senderTier |-> "",
           gate |-> "none", authTier |-> "", spawned |-> FALSE, context |-> "",
           sent |-> {}, outcome |-> "", prompt |-> {}]

\* SELECT ... WHERE chat_jid = ? AND timestamp > ? ORDER BY timestamp: the
\* rows the prompt is built from, by id
getMessagesSince(table, chatJid, sinceTimestamp) ==
    {r.id : r \in {q \in table : q.chat_jid = chatJid
                                    /\ q.timestamp > sinceTimestamp}}

\* lastAgentTimestamp[msg.chat_jid] || ''
sinceTimestampOf(stamps, chatJid) ==
    IF chatJid \in DOMAIN stamps THEN stamps[chatJid] ELSE 0

\* the stranger branch with an exemption for the owner's own messages
ignoreThread_OwnerExempt(strangers, senderTier) ==
    strangers /\ senderTier # "owner"

\* if (hasStrangers(...)) { notify the owner; return }
ignoreThread(strangers, senderTier) == strangers

\* sendMessage(jid, text): the attempt, whether or not the transport delivers
sendMessage(sent, jid) == sent \cup {jid}

\* the decision when the main group needs the trigger like any other group
Decide_MainNeedsTrigger(p) ==
    LET isGroupChat == p.msg.chat_jid.domain = "g.us"
        authResult == canInvoke(translateJid(p.msg.sender), isGroupChat)
        q == [p EXCEPT !.authTier = authResult.tier, !.pc = "done"]
    IN
    IF ~authResult.canInvoke THEN [q EXCEPT !.outcome = "ignored"]
    ELSE IF ~TriggerMatches(p.msg.content) THEN [q EXCEPT !.outcome = "passive"]
    ELSE [q EXCEPT !.pc = "agent",
                   !.spawned = TRUE,
                   !.context = determineAgentContext(p.senderTier,
                                                     p.group.contextTier),
                   !.prompt = getMessagesSince(messages, p.msg.chat_jid,
                                 sinceTimestampOf(lastAgentTimestamp,
                                                  p.msg.chat_jid))]

\* from the trigger check to the start of runAgent
Decide(p) ==
    LET isMainGroup == p.group.folder = MAIN_GROUP_FOLDER
        isGroupChat == p.msg.chat_jid.domain = "g.us"
        senderJid == translateJid(p.msg.sender)
        hasTrigger == isMainGroup \/ TriggerMatches(p.msg.content)
        authResult == canInvoke(senderJid, isGroupChat)
        q == [p EXCEPT !.authTier = authResult.tier, !.pc = "done"]
    IN
    IF ~authResult.canInvoke
    THEN IF p.senderTier = "friend" /\ hasTrigger
         THEN [q EXCEPT !.outcome = "friend-passive"]
         ELSE [q EXCEPT !.outcome = "ignored"]
    ELSE IF ~hasTrigger
    THEN [q EXCEPT !.outcome = "passive"]
    ELSE IF ~isMainGroup /\ ~TriggerMatches(p.msg.content)
    THEN [q EXCEPT !.outcome = "legacy"]
    ELSE [q EXCEPT !.pc = "agent",
                   !.spawned = TRUE,
                   !.context = determineAgentContext(p.senderTier,
                                                     p.group.contextTier),
                   !.prompt = getMessagesSince(messages, p.msg.chat_jid,
                                 sinceTimestampOf(lastAgentTimestamp,
                                                  p.msg.chat_jid))]

\* processMessage up to its first await
ProcessMessageBegin(msg) ==
    /\ pm.pc \in {"idle", "done", "threw"}
    /\ LET group == GroupAt(registeredGroups, msg.chat_jid)
           isGroupChat == msg.chat_jid.domain = "g.us"
           senderTier == getUserTier(translateJid(msg.sender))
           p == [PmIdle EXCEPT !.msg = msg, !.group = group,
                               !.senderTier = senderTier]
       IN pm' = IF group = NoGroup
                THEN [PmIdle EXCEPT !.msg = msg, !.pc = "done",
                                    !.outcome = "unregistered"]
                ELSE IF isGroupChat THEN [p EXCEPT !.pc = "metadata"]
                ELSE Decide(p)
    /\ UNCHANGED <<regVars, registeredGroups, lidToPhoneMap, strangerCache, now, ipcVars>>
    /\ UNCHANGED extVars

\* a rejected sock.groupMetadata treated as "no strangers"
ProcessMessageMetadataFails_Proceeds ==
    /\ pm.pc = "metadata"
    /\ pm' = Decide([pm EXCEPT !.gate = "error"])
    /\ UNCHANGED <<regVars, registeredGroups, lidToPhoneMap, strangerCache, now, ipcVars>>
    /\ UNCHANGED extVars

\* sock.groupMetadata rejects: fail secure
ProcessMessageMetadataFails ==
    /\ pm.pc = "metadata"
    /\ pm' = [pm EXCEPT !.pc = "done", !.gate = "error", !.outcome = "metadata-error"]
    /\ UNCHANGED <<regVars, registeredGroups, lidToPhoneMap, strangerCache, now, ipcVars>>
    /\ UNCHANGED extVars

\* owner alerts are counted up to MaxNotices
MaxNotices == 2

CountNotice(n) == IF n < MaxNotices THEN n + 1 ELSE n

\* sock.groupMetadata resolves with the live participants
ProcessMessageMetadata(participants) ==
    /\ pm.pc = "metadata"
    /\ LET h == hasStrangers(strangerCache, pm.msg.chat_jid, participants, FALSE, now)
           ownerUsers == getUsersByTier("owner")
           alerted == ignoreThread(h.result, pm.senderTier) /\ Len(ownerUsers) > 0
       IN /\ strangerCache' = h.cache
          /\ notices' = [notices EXCEPT ![normalizeJid(pm.msg.chat_jid)] =
                            IF h.fresh THEN (IF alerted THEN 1 ELSE 0)
                            ELSE IF alerted THEN CountNotice(@) ELSE @]
          /\ pm' = IF ignoreThread(h.result, pm.senderTier)
                   THEN [pm EXCEPT !.pc = "done", !.gate = "true",
                                   !.outcome = "strangers",
                                   !.sent = IF Len(ownerUsers) > 0
                                            THEN sendMessage(@, ownerUsers[1])
                                            ELSE @]
                   ELSE Decide([pm EXCEPT !.gate = IF h.result THEN "true" ELSE "false"])
    /\ UNCHANGED <<regVars, registeredGroups, lidToPhoneMap, now, ipcVars>>
    /\ UNCHANGED <<gateCall, loopVars, sched, host, run, memVars>>

\* runAgent returns: a response, no response, or an error result
ProcessMessageAgentDone(output) ==
    /\ pm.pc = "agent"
    /\ pm' = [pm EXCEPT !.pc = "done",
                        !.outcome = output,
                        !.sent = IF output = "response"
                                 THEN sendMessage(@, pm.msg.chat_jid) ELSE @]
    /\ lastAgentTimestamp' =
          IF output = "response"
          THEN [lastAgentTimestamp EXCEPT ![pm.msg.chat_jid] = pm.msg.timestamp]
          ELSE lastAgentTimestamp
    /\ UNCHANGED <<regVars, registeredGroups, lidToPhoneMap, strangerCache, now, ipcVars>>
    /\ UNCHANGED <<gateCall, notices, messages, lastTimestamp, loop, sched, host, run, memVars>>

\* processMessage throws before the sandbox is spawned: getMessagesSince or
\* the snapshot writes at the head of runAgent fail
ProcessMessageThrows ==
    /\ pm.pc = "agent"
    /\ pm' = [pm EXCEPT !.pc = "threw", !.spawned = FALSE, !.outcome = "threw"]
    /\ UNCHANGED <<regVars, registeredGroups, lidToPhoneMap, strangerCache, now, ipcVars>>
    /\ UNCHANGED extVars

\* the host applies an add_user or remove_user while a message is in progress
HostAddsUser(jid, tier) ==
    /\ addUser(registryFile, jid, tier, TRUE).ret = "true"
    /\ registryFile' = addUser(registryFile, jid, tier, TRUE).file
    /\ UNCHANGED <<lastOp, msgVars, ipcVars>>
    /\ UNCHANGED extVars

HostRemovesUser(jid) ==
    /\ removeUser(registryFile, jid, TRUE).ret = "true"
    /\ registryFile' = removeUser(registryFile, jid, TRUE).file
    /\ UNCHANGED <<lastOp, msgVars, ipcVars>>
    /\ UNCHANGED extVars

Tick ==
    /\ now < MaxTicks * TickMs
    /\ now' = now + TickMs
    /\ UNCHANGED <<regVars, registeredGroups, lidToPhoneMap, strangerCache, pm, ipcVars>>
    /\ UNCHANGED extVars

OwnerJid == Jid("u1", "", PhoneDomain)

GuestJid == Jid("u2", "", PhoneDomain)

\* the participant lists groupMetadata returns: the owner alone, with a
\* second member (with or without a device suffix), and under two addresses
ParticipantLists ==
    {<<OwnerJid>>,
     <<OwnerJid, GuestJid>>,
     <<OwnerJid, Jid("u2", "1", PhoneDomain)>>,
     <<OwnerJid, Jid("u1", "1", PhoneDomain)>>}

Senders == {OwnerJid, Jid("u1", "1", PhoneDomain), GuestJid} \cup LidJids

NormalUserJids == {normalizeJid(j) : j \in UserJids}

(***************************************************************************)
(* Scheduled tasks                                                         *)
(***************************************************************************)
\* SQL NULL in next_run
NULL == -1

Task(id, folder, chat, stype, svalue, nextRun, status) ==
    [id |-> id, group_folder |-> folder, chat_jid |-> chat,
     schedule_type |-> stype, schedule_value |-> svalue,
     next_run |-> nextRun, status |-> status]

Schedule(stype, svalue) == [type |-> stype, value |-> svalue]

NoSchedule == Schedule("", "")

\* parseInt(value, 10): [nan, n]
parseInt(value) ==
    CASE value = "60000" -> [nan |-> FALSE, n |-> 60000]
      [] value = "0" -> [nan |-> FALSE, n |-> 0]
      [] OTHER -> [nan |-> TRUE, n |-> 0]

\* CronExpressionParser.parse(value): does it throw
cronParses(value) == value = "0 9 * * 1"

\* new Date(value).getTime(): [nan, n]
dateParse(value) ==
    CASE value = "1970-01-01T00:05:00.000Z" -> [nan |-> FALSE, n |-> 300000]
      [] OTHER -> [nan |-> TRUE, n |-> 0]

\* the next_run schedule_task computes: [ok, nextRun]; ok is false where the
\* code logs the value as invalid and breaks
computeNextRun(schedule, nowT) ==
    IF schedule.type = "cron"
    THEN IF cronParses(schedule.value)
         THEN [ok |-> TRUE, nextRun |-> nowT + TickMs]
         ELSE [ok |-> FALSE, nextRun |-> NULL]
    ELSE IF schedule.type = "interval"
    THEN LET ms == parseInt(schedule.value) IN
         IF ms.nan \/ ms.n <= 0
         THEN [ok |-> FALSE, nextRun |-> NULL]
         ELSE [ok |-> TRUE, nextRun |-> nowT + ms.n]
    ELSE IF schedule.type = "once"
    THEN LET scheduled == dateParse(schedule.value) IN
         IF scheduled.nan
         THEN [ok |-> FALSE, nextRun |-> NULL]
         ELSE [ok |-> TRUE, nextRun |-> scheduled.n]
    ELSE [ok |-> TRUE, nextRun |-> NULL]

getTaskById(table, id) ==
    IF \E t \in table : t.id = id
    THEN CHOOSE t \in table : t.id = id
    ELSE Task(0, "", NoJid, "", "", NULL, "")

createTask(table, task) == table \cup {task}

updateTask(table, id, status) ==
    {IF t.id = id THEN [t EXCEPT !.status = status] ELSE t : t \in table}

deleteTask(table, id) == {t \in table : t.id # id}

(***************************************************************************)
(* Command channel: processIpcFiles and processTaskIpc                     *)
(***************************************************************************)
MaxFiles == 2

\* the namespace directories under data/ipc, in readdir order
IpcDirs == <<"fam", "fr", "main">>

D0 == [type |-> "", taskId |-> 0, groupFolder |-> "", chatJid |-> NoJid,
       schedule |-> NoSchedule, jid |-> NoJid, folder |-> "", userJid |-> NoJid,
       tier |-> ""]

\* a file JSON.parse rejects
Unparsable == [D0 EXCEPT !.type = "<unparsable>"]

MessageCmd(chat) == [D0 EXCEPT !.type = "message", !.chatJid = chat]

ScheduleCmd(folder, chat, schedule) ==
    [D0 EXCEPT !.type = "schedule_task", !.groupFolder = folder, !.chatJid = chat,
               !.schedule = schedule]

TaskCmd(type, id) == [D0 EXCEPT !.type = type, !.taskId = id]

RegisterCmd(jid, folder) ==
    [D0 EXCEPT !.type = "register_group", !.jid = jid, !.folder = folder]

UserCmd(type, jid, tier) ==
    [D0 EXCEPT !.type = type, !.userJid = jid, !.tier = tier]

PlainCmd(type) == [D0 EXCEPT !.type = type]

File(id, ns, queue, data) == [id |-> id, ns |-> ns, queue |-> queue, data |-> data]

NoLast == [id |-> 0, ns |-> "", queue |-> "", data |-> D0, tier |-> "",
           disposition |-> "", sentTo |-> {}, taskOwner |-> "", synced |-> FALSE,
           threw |-> FALSE]

\* per file name: the namespace it was written to, how often a pass has read
\* it, whether its processing threw, and the effective tier of the sandbox
\* run that wrote it ("" when it was not written during a message turn)
NoLog == [i \in 1..MaxFiles |-> [ns |-> "", reads |-> 0, threw |-> FALSE, ranAs |-> ""]]

\* between two passes: one timer is pending and no pass is running; dirError
\* tells whether the last pass that ended could not read the base directory
PassIdle == [pc |-> "sleep", dirs |-> <<>>, phase |-> "", files |-> <<>>,
             pending |-> 1, running |-> 0, dirError |-> FALSE]

\* Object.values(registeredGroups).find(g => g.folder === folder)
FindByFolder(groups, folder) ==
    IF \E i \in DOMAIN groups : groups[i].folder = folder
    THEN groups[CHOOSE i \in DOMAIN groups :
                   /\ groups[i].folder = folder
                   /\ \A k \in DOMAIN groups : groups[k].folder = folder => i <= k]
    ELSE NoGroup

\* the privilege level taken from the payload's own groupFolder
contextTierOf_FromPayload(data, sourceGroup, groups) ==
    LET claimed == IF data.groupFolder # "" THEN data.groupFolder ELSE sourceGroup
        group == FindByFolder(groups, claimed)
    IN IF group.contextTier # NoTier THEN group.contextTier ELSE "friend"

\* group?.contextTier || 'friend'
contextTierOf(data, sourceGroup, groups) ==
    LET group == FindByFolder(groups, sourceGroup) IN
    IF group.contextTier # NoTier THEN group.contextTier ELSE "friend"

\* registeredGroups[jid] = group (the save that follows may throw)
registerGroup(groups, jid, group) ==
    IF \E i \in DOMAIN groups : groups[i].jid = jid
    THEN [i \in DOMAIN groups |-> IF groups[i].jid = jid THEN group ELSE groups[i]]
    ELSE Append(groups, group)

\* a task command honoured for any family namespace, whoever owns the task
mayActOnTask_AnyFamily(task, sourceGroup, isOwner, isFamily) ==
    task.id # 0 /\ (isOwner \/ isFamily)

\* task && (isOwner || (isFamily && task.group_folder === sourceGroup))
mayActOnTask(task, sourceGroup, isOwner, isFamily) ==
    task.id # 0 /\ (isOwner \/ (isFamily /\ task.group_folder = sourceGroup))

\* the owner-only commands opened to family namespaces
ownerOnly_FamilyToo(isOwner, isFamily) == isOwner \/ isFamily

\* if (!isOwner) { warn; break }
ownerOnly(isOwner, isFamily) == isOwner

Effect(tb, nid, groups, file, synced, threw) ==
    [tasks |-> tb, nextTaskId |-> nid, groups |-> groups, file |-> file,
     synced |-> synced, threw |-> threw]

\* an authorization denial that throws instead of returning
deny_Throws(same) == [same EXCEPT !.threw = TRUE]

\* logger.warn(...); break
deny(same) == same

\* processTaskIpc: the state it leaves, and whether it threw
processTaskIpc(data, sourceGroup, isMain, saveOk) ==
    LET contextTier == contextTierOf(data, sourceGroup, registeredGroups)
        isOwner == contextTier = "owner"
        isFamily == contextTier = "family"
        same == Effect(tasks, nextTaskId, registeredGroups, registryFile, FALSE, FALSE)
        task == getTaskById(tasks, data.taskId)
    IN
    IF data.type = "schedule_task"
    THEN IF data.schedule.type = "" \/ data.schedule.value = "" \/ data.groupFolder = ""
         THEN same
         ELSE IF ~isOwner /\ ~isFamily THEN deny(same)
         ELSE IF ~isOwner /\ data.groupFolder # sourceGroup THEN deny(same)
         ELSE LET target == FindByFolder(registeredGroups, data.groupFolder)
                  nr == computeNextRun(data.schedule, now)
              IN IF target = NoGroup THEN same
                 ELSE IF ~nr.ok THEN same
                 ELSE [same EXCEPT
                         !.tasks = createTask(tasks,
                            Task(nextTaskId, data.groupFolder, target.jid,
                                 data.schedule.type, data.schedule.value,
                                 nr.nextRun, "active")),
                         !.nextTaskId = nextTaskId + 1]
    ELSE IF data.type = "pause_task"
    THEN IF data.taskId # 0 /\ mayActOnTask(task, sourceGroup, isOwner, isFamily)
         THEN [same EXCEPT !.tasks = updateTask(tasks, data.taskId, "paused")]
         ELSE IF data.taskId # 0 THEN deny(same) ELSE same
    ELSE IF data.type = "resume_task"
    THEN IF data.taskId # 0 /\ mayActOnTask(task, sourceGroup, isOwner, isFamily)
         THEN [same EXCEPT !.tasks = updateTask(tasks, data.taskId, "active")]
         ELSE IF data.taskId # 0 THEN deny(same) ELSE same
    ELSE IF data.type = "cancel_task"
    THEN IF data.taskId # 0 /\ mayActOnTask(task, sourceGroup, isOwner, isFamily)
         THEN [same EXCEPT !.tasks = deleteTask(tasks, data.taskId)]
         ELSE IF data.taskId # 0 THEN deny(same) ELSE same
    ELSE IF data.type = "refresh_groups"
    THEN IF ownerOnly(isOwner, isFamily)
         THEN [same EXCEPT !.synced = TRUE, !.threw = ~saveOk]
         ELSE same
    ELSE IF data.type = "register_group"
    THEN IF ~ownerOnly(isOwner, isFamily) THEN same
         ELSE IF data.jid # NoJid /\ data.folder # ""
         THEN [same EXCEPT !.groups =
                  registerGroup(registeredGroups, data.jid,
                                Group(data.jid, data.folder, NoTier)),
                            !.threw = ~saveOk]
         ELSE same
    ELSE IF data.type = "add_user"
    THEN IF ~ownerOnly(isOwner, isFamily) THEN same
         ELSE IF data.userJid # NoJid /\ data.tier # ""
         THEN LET r == addUser(registryFile, data.userJid, data.tier, saveOk) IN
              [same EXCEPT !.file = r.file, !.threw = (r.ret = "throw")]
         ELSE same
    ELSE IF data.type = "remove_user"
    THEN IF ~ownerOnly(isOwner, isFamily) THEN same
         ELSE IF data.userJid # NoJid
         THEN [same EXCEPT !.file = removeUser(registryFile, data.userJid, saveOk).file]
         ELSE same
    ELSE same

\* the message check with the namespace test left out
mayDeliver_AnyRegistered(isMain, targetGroup, sourceGroup) ==
    isMain \/ targetGroup # NoGroup

\* isMain || (targetGroup && targetGroup.folder === sourceGroup)
mayDeliver(isMain, targetGroup, sourceGroup) ==
    isMain \/ (targetGroup # NoGroup /\ targetGroup.folder = sourceGroup)

\* fs.unlinkSync that leaves the file in place
unlinkSync_Keeps(files, id) == files

\* fs.unlinkSync(filePath)
unlinkSync(files, id) == {f \in files : f.id # id}

\* fs.renameSync(filePath, ...): the file leaves its queue
renameSync(files, id) == {f \in files : f.id # id}

\* the entry of data/ipc/errors a failed file is renamed to:
\* `${sourceGroup}-${file}`
Quarantined(f) == [id |-> f.id, name |-> <<f.ns, f.id>>]

FileById(id) == CHOOSE f \in ipcFiles : f.id = id

\* readdirSync(dir).filter(.json): the ids of the files of one queue, in
\* name order
RECURSIVE SortedIds(_)
SortedIds(S) ==
    IF S = {} THEN <<>>
    ELSE LET lo == CHOOSE x \in S : \A y \in S : x <= y
         IN <<lo>> \o SortedIds(S \ {lo})

Listing(ns, queue) ==
    SortedIds({f.id : f \in {g \in ipcFiles : g.ns = ns /\ g.queue = queue}})

\* a sandbox (or the host) drops a command file into a namespace's queue
SandboxWrite(ns, queue, data) ==
    /\ fileSeq < MaxFiles
    /\ fileSeq' = fileSeq + 1
    /\ ipcFiles' = ipcFiles \cup {File(fileSeq + 1, ns, queue, data)}
    /\ fileLog' = [fileLog EXCEPT ![fileSeq + 1].ns = ns]
    /\ UNCHANGED <<regVars, msgVars, tasks, nextTaskId, quarantine, ipcLast, ipcPass>>
    /\ UNCHANGED extVars

\* setTimeout(processIpcFiles, IPC_POLL_INTERVAL)
scheduleNext(pass) == [pass EXCEPT !.pending = @ + 1]

\* the catch around the listing of the base directory, without its return
dirReadFails_NoReturn(pass) ==
    [scheduleNext(pass) EXCEPT !.dirError = TRUE]

\* catch (err) { logger.error; setTimeout(processIpcFiles, ...); return }
dirReadFails(pass) ==
    [scheduleNext(pass) EXCEPT !.running = @ - 1, !.dirError = TRUE]

\* a pass begins and readdirSync or statSync of the base directory throws
IpcPassDirError ==
    /\ ipcPass.pc = "sleep" /\ ipcPass.pending > 0
    /\ ipcPass' = dirReadFails([ipcPass EXCEPT !.pending = @ - 1,
                                               !.running = @ + 1])
    /\ UNCHANGED <<regVars, msgVars, tasks, nextTaskId, ipcFiles, quarantine,
                   fileSeq, fileLog, ipcLast>>
    /\ UNCHANGED extVars

\* a pass begins: the namespace directories are listed, 'errors' left out
IpcPassStart ==
    /\ ipcPass.pc = "sleep" /\ ipcPass.pending > 0
    /\ ipcPass' = [pc |-> "run", dirs |-> IpcDirs, phase |-> "messages",
                   files |-> Listing(IpcDirs[1], "messages"),
                   pending |-> ipcPass.pending - 1,
                   running |-> ipcPass.running + 1,
                   dirError |-> ipcPass.dirError]
    /\ UNCHANGED <<regVars, msgVars, tasks, nextTaskId, ipcFiles, quarantine,
                   fileSeq, fileLog, ipcLast>>
    /\ UNCHANGED extVars

\* one file of <namespace>/messages
IpcHandleMessageFile ==
    /\ ipcPass.pc = "run" /\ ipcPass.phase = "messages" /\ ipcPass.files # <<>>
    /\ LET f == FileById(Head(ipcPass.files))
           sourceGroup == f.ns
           isMain == sourceGroup = MAIN_GROUP_FOLDER
           threw == f.data = Unparsable
           targetGroup == GroupAt(registeredGroups, f.data.chatJid)
           deliver == /\ ~threw
                      /\ f.data.type = "message" /\ f.data.chatJid # NoJid
                      /\ mayDeliver(isMain, targetGroup, sourceGroup)
       IN /\ ipcFiles' = IF threw THEN renameSync(ipcFiles, f.id)
                         ELSE unlinkSync(ipcFiles, f.id)
          /\ quarantine' = IF threw THEN quarantine \cup {Quarantined(f)}
                           ELSE quarantine
          /\ fileLog' = [fileLog EXCEPT ![f.id] =
                            [@ EXCEPT !.reads = @ + 1, !.threw = threw]]
          /\ ipcLast' = [NoLast EXCEPT
                            !.id = f.id, !.ns = f.ns, !.queue = f.queue,
                            !.data = f.data, !.threw = threw,
                            !.disposition = IF threw THEN "quarantined" ELSE "deleted",
                            !.sentTo = IF deliver
                                       THEN sendMessage({}, f.data.chatJid) ELSE {}]
    /\ ipcPass' = [ipcPass EXCEPT !.files = Tail(@)]
    /\ UNCHANGED <<regVars, msgVars, tasks, nextTaskId, fileSeq>>
    /\ UNCHANGED extVars

\* the messages of the namespace are done: its tasks directory is listed
IpcMessagesDone ==
    /\ ipcPass.pc = "run" /\ ipcPass.phase = "messages" /\ ipcPass.files = <<>>
    /\ ipcPass' = [ipcPass EXCEPT !.phase = "tasks",
                                  !.files = Listing(ipcPass.dirs[1], "tasks")]
    /\ UNCHANGED <<regVars, msgVars, tasks, nextTaskId, ipcFiles, quarantine,
                   fileSeq, fileLog, ipcLast>>
    /\ UNCHANGED extVars

\* one file of <namespace>/tasks
IpcHandleTaskFile(saveOk) ==
    /\ ipcPass.pc = "run" /\ ipcPass.phase = "tasks" /\ ipcPass.files # <<>>
    /\ LET f == FileById(Head(ipcPass.files))
           sourceGroup == f.ns
           isMain == sourceGroup = MAIN_GROUP_FOLDER
           parsed == f.data # Unparsable
           e == IF parsed THEN processTaskIpc(f.data, sourceGroup, isMain, saveOk)
                ELSE Effect(tasks, nextTaskId, registeredGroups, registryFile,
                            FALSE, TRUE)
       IN /\ tasks' = e.tasks
          /\ nextTaskId' = e.nextTaskId
          /\ registeredGroups' = e.groups
          /\ registryFile' = e.file
          /\ ipcFiles' = IF e.threw THEN renameSync(ipcFiles, f.id)
                         ELSE unlinkSync(ipcFiles, f.id)
          /\ quarantine' = IF e.threw THEN quarantine \cup {Quarantined(f)}
                           ELSE quarantine
          /\ fileLog' = [fileLog EXCEPT ![f.id] =
                            [@ EXCEPT !.reads = @ + 1, !.threw = e.threw]]
          /\ ipcLast' = [NoLast EXCEPT
                            !.id = f.id, !.ns = f.ns, !.queue = f.queue,
                            !.data = f.data, !.threw = e.threw,
                            !.tier = IF parsed
                                     THEN contextTierOf(f.data, sourceGroup,
                                                        registeredGroups)
                                     ELSE "",
                            !.disposition = IF e.threw THEN "quarantined"
                                            ELSE "deleted",
                            !.taskOwner = getTaskById(tasks, f.data.taskId).group_folder,
                            !.synced = e.synced]
    /\ ipcPass' = [ipcPass EXCEPT !.files = Tail(@)]
    /\ UNCHANGED <<lastOp, lidToPhoneMap, strangerCache, now, pm, fileSeq>>
    /\ UNCHANGED extVars

\* the tasks of the namespace are done: on to the next namespace, or the
\* pass ends and the next one is scheduled
IpcTasksDone ==
    /\ ipcPass.pc = "run" /\ ipcPass.phase = "tasks" /\ ipcPass.files = <<>>
    /\ ipcPass' = IF Len(ipcPass.dirs) > 1
                  THEN [ipcPass EXCEPT
                          !.dirs = Tail(@), !.phase = "messages",
                          !.files = Listing(ipcPass.dirs[2], "messages")]
                  ELSE scheduleNext([PassIdle EXCEPT
                                        !.pending = ipcPass.pending,
                                        !.running = ipcPass.running - 1])
    /\ UNCHANGED <<regVars, msgVars, tasks, nextTaskId, ipcFiles, quarantine,
                   fileSeq, fileLog, ipcLast>>
    /\ UNCHANGED extVars

\* no direct hasStrangers call yet
NoCall == [n |-> 0, group |-> NoJid, participants |-> <<>>, force |-> FALSE,
           result |-> FALSE, fresh |-> FALSE, before |-> NoEntry, at |-> 0]

NoNotices == [g \in GroupChatJids |-> 0]

LoopOff == [pc |-> "off", batch |-> <<>>]

SchedOff == [pc |-> "off", due |-> <<>>, running |-> 0, ran |-> {}]

\* before the first connection.update: no guard set, no loop started
HostDown == [connection |-> "connecting", opens |-> 0, reopened |-> FALSE,
             messageLoopRunning |-> FALSE, ipcWatcherRunning |-> FALSE,
             groupSyncTimerStarted |-> FALSE,
             msgLoops |-> 0, ipcLoops |-> 0, syncTimers |-> 0, schedStarts |-> 0]

NoResult == [status |-> "", result |-> "", error |-> ""]

\* host paths, one character per element, so that toLowerCase and includes
\* work on them as they do on strings
VaultPath == <<"/", "v">>
SshPath == <<"/", ".", "s", "s", "h">>
UpperSshPath == <<"/", ".", "S", "S", "H">>
FilePath == <<"/", "f">>
LinkPath == <<"/", "l">>
EmptyPath == <<>>

\* what the host file system answers: where the symbolic link /l leads (or the
\* error code of resolving it), whether groups/global exists, and whether
\* .env holds one of the allowed variables
HostFs(code, target, globalDir, envVars) ==
    [link |-> [code |-> code, target |-> target], globalDir |-> globalDir,
     envVars |-> envVars]

HostFsInit == HostFs("ok", VaultPath, FALSE, FALSE)

\* data/vault-config.json as loadVaultConfig returns it
Vault(enabled, path) == [enabled |-> enabled, path |-> path]
VaultConfig(private, main) == [privateVault |-> private, mainVault |-> main]
NoVaults == VaultConfig(Vault(FALSE, EmptyPath), Vault(FALSE, EmptyPath))

\* no mount list built yet
NoMountCall == [built |-> FALSE, folder |-> "", isMain |-> FALSE, tier |-> NoTier,
                fsAtBuild |-> HostFsInit, mounts |-> <<>>]

RunIdle == [pc |-> "idle", override |-> NULL, timeout |-> 0, elapsed |-> 0,
            timer |-> "none",
            stdout |-> <<>>, stdoutTruncated |-> FALSE, killed |-> FALSE,
            closed |-> FALSE, exitCode |-> 0, errored |-> FALSE, resolves |-> 0,
            result |-> NoResult,
            hostFs |-> HostFsInit, vaultConfig |-> NoVaults, mount |-> NoMountCall]

\* the group folders whose sessions are followed, and '' for no session id
SessionFolders == {"main", "fam"}
NoSessions == [f \in SessionFolders |-> ""]

\* no runAgent call in progress; lastNew and saved record, per folder, the
\* newSessionId returned last and whether the save that followed succeeded
AgentIdle == [pc |-> "idle", folder |-> "", sessionId |-> "",
              last |-> "", out |-> "",
              lastNew |-> NoSessions, saved |-> [f \in SessionFolders |-> TRUE]]

\* an empty registry read cache
NoRegistryCache == [present |-> FALSE, content |-> defaultRegistry, at |-> 0]

MemIdle ==
    /\ sessions = NoSessions
    /\ sessionsFile = NoSessions
    /\ agent = AgentIdle
    /\ registryCache = NoRegistryCache

ExtIdle ==
    /\ gateCall = NoCall
    /\ notices = NoNotices
    /\ messages = {}
    /\ lastTimestamp = 0
    /\ lastAgentTimestamp = [c \in ChatJids |-> 0]
    /\ loop = LoopOff
    /\ sched = SchedOff
    /\ host = HostDown
    /\ run = RunIdle
    /\ MemIdle

IpcIdle ==
    /\ tasks = {}
    /\ nextTaskId = 1
    /\ ipcFiles = {}
    /\ quarantine = {}
    /\ fileSeq = 0
    /\ fileLog = NoLog
    /\ ipcLast = NoLast
    /\ ipcPass = PassIdle

EmptyCache == [g \in GroupChatJids |-> NoEntry]

\* one registered chat: the main group, another group under any contextTier,
\* or a direct chat
InitGroupsMsg ==
    {<<Group(Jid("g1", "", "g.us"), MAIN_GROUP_FOLDER, NoTier)>>,
     <<Group(DirectChatJid, "dm", NoTier)>>}
      \cup {<<Group(Jid("g2", "", "g.us"), "fam", t)>> :
                t \in {NoTier, "owner", "friend"}}

InitMsg ==
    /\ registryFile = [status |-> "ok",
                       content |-> [defaultRegistry EXCEPT !.owner = OwnerJid]]
    /\ lastOp = Op("init", NoJid, "", "")
    /\ registeredGroups \in InitGroupsMsg
    /\ lidToPhoneMap \in [LidLocals -> {NoJid, GuestJid}]
    /\ strangerCache = EmptyCache
    /\ now = 0
    /\ pm = PmIdle
    /\ IpcIdle
    /\ ExtIdle

NextMsg ==
    \/ \E c \in {registeredGroups[1].jid, UnregisteredChatJid},
          sd \in Senders, ct \in Contents :
          ProcessMessageBegin(Msg(c, sd, ct))
    \/ ProcessMessageMetadataFails
    \/ \E ps \in ParticipantLists : ProcessMessageMetadata(ps)
    \/ \E o \in {"response", "null", "error"} : ProcessMessageAgentDone(o)
    \/ ProcessMessageThrows
    \/ \E t \in {"family", "friend"} : HostAddsUser(GuestJid, t)
    \/ HostRemovesUser(GuestJid)
    \/ Tick

SpecMsg == InitMsg /\ [][NextMsg]_vars

InitPolicy ==
    /\ registryFile = [status |-> "absent", content |-> defaultRegistry]
    /\ lastOp = Op("init", NoJid, "", "")
    /\ registeredGroups = <<>>
    /\ lidToPhoneMap = [l \in LidLocals |-> NoJid]
    /\ strangerCache = EmptyCache
    /\ now = 0
    /\ pm = PmIdle
    /\ IpcIdle
    /\ ExtIdle

NextPolicy ==
    \/ \E j \in UserJids, ok \in BOOLEAN : CallInitializeOwner(j, ok)
    \/ \E j \in UserJids, t \in {"family", "friend"}, ok \in BOOLEAN :
          CallAddUser(j, t, ok)
    \/ \E j \in UserJids, ok \in BOOLEAN : CallRemoveUser(j, ok)
    \/ \E how \in {"absent", "unreadable", "corrupt"} : RegistryFileFails(how)
    \/ \E j \in UserJids : QueryTier(j)
    \/ \E j \in UserJids : QueryCanInvoke(j)
    \/ \E j \in UserJids, g \in {NoTier, "owner", "family", "friend"} : QueryContext(j, g)

SpecPolicy == InitPolicy /\ [][NextPolicy]_vars

\* the registry under its three writing operations alone, from the first start
NextRegistry ==
    \/ \E j \in UserJids, ok \in BOOLEAN : CallInitializeOwner(j, ok)
    \/ \E j \in UserJids, t \in {"family", "friend"}, ok \in BOOLEAN :
          CallAddUser(j, t, ok)
    \/ \E j \in UserJids, ok \in BOOLEAN : CallRemoveUser(j, ok)

SpecRegistry == InitPolicy /\ [][NextRegistry]_vars

(***************************************************************************)
(* The command channel on its own: three namespaces and two tasks          *)
(***************************************************************************)
MainJid == Jid("g1", "", "g.us")
FamJid == Jid("g2", "", "g.us")
FrJid == Jid("g3", "", "g.us")
NewJid == Jid("g4", "", "g.us")

InitGroupsIpc ==
    <<Group(MainJid, MAIN_GROUP_FOLDER, "owner"), Group(FamJid, "fam", "family"),
      Group(FrJid, "fr", NoTier)>>

InitTasksIpc ==
    {Task(1, "fam", FamJid, "interval", "60000", 60000, "active"),
     Task(2, "fr", FrJid, "interval", "60000", 60000, "active")}

Namespaces == {"main", "fam", "fr"}

MessageFiles ==
    {Unparsable} \cup {MessageCmd(c) : c \in {MainJid, FamJid, UnregisteredChatJid}}

TaskFiles ==
    {Unparsable, PlainCmd("refresh_groups"),
     ScheduleCmd("fam", UnregisteredChatJid, Schedule("interval", "60000")),
     ScheduleCmd("main", UnregisteredChatJid, Schedule("interval", "60000")),
     ScheduleCmd("fam", UnregisteredChatJid, Schedule("cron", "not a cron")),
     RegisterCmd(FamJid, "main"), RegisterCmd(NewJid, "fam")}
      \cup {TaskCmd(t, id) : t \in {"pause_task", "resume_task", "cancel_task"},
                             id \in {1, 2}}
      \cup {UserCmd("add_user", GuestJid, "family"),
            UserCmd("remove_user", GuestJid, ""),
            UserCmd("remove_user", OwnerJid, "")}

InitIpc ==
    /\ registryFile = [status |-> "ok",
                       content |-> [defaultRegistry EXCEPT !.owner = OwnerJid]]
    /\ lastOp = Op("init", NoJid, "", "")
    /\ registeredGroups = InitGroupsIpc
    /\ lidToPhoneMap = [l \in LidLocals |-> NoJid]
    /\ strangerCache = EmptyCache
    /\ now = 0
    /\ pm = PmIdle
    /\ tasks = InitTasksIpc
    /\ nextTaskId = 3
    /\ ipcFiles = {}
    /\ quarantine = {}
    /\ fileSeq = 0
    /\ fileLog = NoLog
    /\ ipcLast = NoLast
    /\ ipcPass = PassIdle
    /\ ExtIdle

\* one command in flight at a time, at any point of a pass
NextIpc ==
    \/ \E ns \in Namespaces, d \in MessageFiles :
          ipcFiles = {} /\ SandboxWrite(ns, "messages", d)
    \/ \E ns \in Namespaces, d \in TaskFiles :
          ipcFiles = {} /\ SandboxWrite(ns, "tasks", d)
    \/ IpcPassStart
    \/ IpcHandleMessageFile
    \/ IpcMessagesDone
    \/ \E ok \in BOOLEAN : IpcHandleTaskFile(ok)
    \/ IpcTasksDone

SpecIpc == InitIpc /\ [][NextIpc]_vars

(***************************************************************************)
(* The drain passes under concurrent writers: files land in any queue at   *)
(* any point of a pass, several at a time                                  *)
(***************************************************************************)
DrainNamespaces == {"main", "fam"}

DrainMessageFiles == {Unparsable, MessageCmd(FamJid)}

DrainTaskFiles ==
    {Unparsable, TaskCmd("cancel_task", 1), UserCmd("add_user", GuestJid, "family")}

NextDrain ==
    \/ \E ns \in DrainNamespaces, d \in DrainMessageFiles :
          SandboxWrite(ns, "messages", d)
    \/ \E ns \in DrainNamespaces, d \in DrainTaskFiles :
          SandboxWrite(ns, "tasks", d)
    \/ IpcPassStart
    \/ IpcHandleMessageFile
    \/ IpcMessagesDone
    \/ \E ok \in BOOLEAN : IpcHandleTaskFile(ok)
    \/ IpcTasksDone

SpecDrain == InitIpc /\ [][NextDrain]_vars

\* the same, with passes that cannot list the base directory
NextWatcher ==
    \/ NextDrain
    \/ IpcPassDirError

SpecWatcher == InitIpc /\ [][NextWatcher]_vars

(***************************************************************************)
(* The host's loops: message intake, scheduler, and the connection events  *)
(* that start them                                                         *)
(***************************************************************************)
MaxMsgs == 2
MaxStamp == 2
MaxOpens == 2

\* a row of the messages table
StoredMsg(id, chat, sender, content, ts) ==
    [Msg(chat, sender, content) EXCEPT !.id = id, !.timestamp = ts]

\* ORDER BY timestamp: rows in timestamp order, equal timestamps in rowid order
RECURSIVE OrderByTimestamp(_)
OrderByTimestamp(rows) ==
    IF rows = {} THEN <<>>
    ELSE LET first == CHOOSE r \in rows :
                         \A q \in rows :
                            \/ r.timestamp < q.timestamp
                            \/ (r.timestamp = q.timestamp /\ r.id <= q.id)
         IN <<first>> \o OrderByTimestamp(rows \ {first})

\* the query with >= in place of >
getNewMessages_Inclusive(table, jids, last) ==
    OrderByTimestamp({r \in table : r.timestamp >= last /\ r.chat_jid \in jids})

\* WHERE timestamp > ? AND chat_jid IN (...) ORDER BY timestamp
getNewMessages(table, jids, last) ==
    OrderByTimestamp({r \in table : r.timestamp > last /\ r.chat_jid \in jids})

\* messages.upsert: a message of a registered chat is stored
MessageArrives(chat, sender, content, ts) ==
    /\ Cardinality(messages) < MaxMsgs
    /\ GroupAt(registeredGroups, chat) # NoGroup
    /\ messages' = messages \cup
                     {StoredMsg(Cardinality(messages) + 1, chat, sender, content, ts)}
    /\ UNCHANGED <<regVars, msgVars, ipcVars, gateCall, notices, lastTimestamp,
                   lastAgentTimestamp, loop, sched, host, run, memVars>>

\* the head of an iteration: the rows past the watermark become the batch
LoopPoll ==
    /\ loop.pc = "sleep"
    /\ loop' = [pc |-> "batch",
                batch |-> getNewMessages(messages,
                                         {registeredGroups[i].jid :
                                             i \in DOMAIN registeredGroups},
                                         lastTimestamp)]
    /\ UNCHANGED <<regVars, msgVars, ipcVars, gateCall, notices, messages,
                   lastTimestamp, lastAgentTimestamp, sched, host, run, memVars>>

\* await processMessage(msg) for the next message of the batch
LoopDispatch ==
    /\ loop.pc = "batch" /\ loop.batch # <<>> /\ pm.pc = "idle"
    /\ ProcessMessageBegin(Head(loop.batch))

\* processMessage returned: lastTimestamp = msg.timestamp; saveState()
LoopAdvance(saveOk) ==
    /\ loop.pc = "batch" /\ pm.pc = "done"
    /\ lastTimestamp' = pm.msg.timestamp
    /\ loop' = IF saveOk THEN [loop EXCEPT !.batch = Tail(@)]
               ELSE [pc |-> "sleep", batch |-> <<>>]
    /\ pm' = PmIdle
    /\ UNCHANGED <<regVars, registeredGroups, lidToPhoneMap, strangerCache, now,
                   ipcVars, gateCall, notices, messages, lastAgentTimestamp,
                   sched, host, run, memVars>>

\* processMessage threw: the batch is abandoned
LoopBreak ==
    /\ loop.pc = "batch" /\ pm.pc = "threw"
    /\ loop' = [pc |-> "sleep", batch |-> <<>>]
    /\ pm' = PmIdle
    /\ UNCHANGED <<regVars, registeredGroups, lidToPhoneMap, strangerCache, now,
                   ipcVars, gateCall, notices, messages, lastTimestamp,
                   lastAgentTimestamp, sched, host, run, memVars>>

\* the batch is through: wait POLL_INTERVAL
LoopBatchDone ==
    /\ loop.pc = "batch" /\ loop.batch = <<>> /\ pm.pc = "idle"
    /\ loop' = [pc |-> "sleep", batch |-> <<>>]
    /\ UNCHANGED <<regVars, msgVars, ipcVars, gateCall, notices, messages,
                   lastTimestamp, lastAgentTimestamp, sched, host, run, memVars>>

\* WHERE status = 'active' AND next_run IS NOT NULL AND next_run <= now
\* ORDER BY next_run: the ids of the due tasks
RECURSIVE OrderByNextRun(_)
OrderByNextRun(rows) ==
    IF rows = {} THEN <<>>
    ELSE LET first == CHOOSE r \in rows :
                         \A q \in rows :
                            \/ r.next_run < q.next_run
                            \/ (r.next_run = q.next_run /\ r.id <= q.id)
         IN <<first.id>> \o OrderByNextRun(rows \ {first})

\* the due query without its status condition
getDueTasks_AnyStatus(table, nowT) ==
    OrderByNextRun({t \in table : t.next_run # NULL /\ t.next_run <= nowT})

getDueTasks(table, nowT) ==
    OrderByNextRun({t \in table :
                       t.status = "active" /\ t.next_run # NULL /\ t.next_run <= nowT})

\* the post-run update without the CASE on status
updateTaskAfterRun_KeepsStatus(table, id, nextRun) ==
    {IF t.id = id THEN [t EXCEPT !.next_run = nextRun] ELSE t : t \in table}

\* SET next_run = ?, status = CASE WHEN ? IS NULL THEN 'completed' ELSE status END
updateTaskAfterRun(table, id, nextRun) ==
    {IF t.id = id
     THEN [t EXCEPT !.next_run = nextRun,
                    !.status = IF nextRun = NULL THEN "completed" ELSE @]
     ELSE t : t \in table}

\* the next fire time after a run: cron from the expression, interval added
\* to now, once never again
nextRunAfter(task, nowT) ==
    IF task.schedule_type = "cron" THEN nowT + TickMs
    ELSE IF task.schedule_type = "interval"
    THEN nowT + parseInt(task.schedule_value).n
    ELSE NULL

\* a scheduler tick: the due tasks are fetched
SchedTick ==
    /\ sched.pc = "sleep"
    /\ sched' = [sched EXCEPT !.pc = "run", !.due = getDueTasks(tasks, now),
                              !.running = 0]
    /\ UNCHANGED <<regVars, msgVars, ipcVars, gateCall, notices, loopVars, host, run, memVars>>

\* the next due task goes to the sandbox orchestrator; a task whose group is
\* not registered is passed over
SchedStartTask ==
    /\ sched.pc = "run" /\ sched.running = 0 /\ sched.due # <<>>
    /\ LET task == getTaskById(tasks, Head(sched.due))
           group == FindByFolder(registeredGroups, task.group_folder)
       IN sched' = IF task.id = 0 \/ group = NoGroup
                   THEN [sched EXCEPT !.due = Tail(@)]
                   ELSE [sched EXCEPT !.running = task.id]
    /\ UNCHANGED <<regVars, msgVars, ipcVars, gateCall, notices, loopVars, host, run, memVars>>

\* the scheduled run ends, in a result or an error: the task is rescheduled
SchedTaskDone ==
    /\ sched.pc = "run" /\ sched.running # 0
    /\ LET task == getTaskById(tasks, sched.running) IN
       tasks' = updateTaskAfterRun(tasks, sched.running, nextRunAfter(task, now))
    /\ sched' = [sched EXCEPT !.running = 0, !.due = Tail(@),
                              !.ran = @ \cup {sched.running}]
    /\ UNCHANGED <<regVars, msgVars, nextTaskId, ipcFiles, quarantine, fileSeq,
                   fileLog, ipcLast, ipcPass, gateCall, notices, loopVars, host, run, memVars>>

\* all due tasks are through: wait for the next tick
SchedTickDone ==
    /\ sched.pc = "run" /\ sched.running = 0 /\ sched.due = <<>>
    /\ sched' = [sched EXCEPT !.pc = "sleep"]
    /\ UNCHANGED <<regVars, msgVars, ipcVars, gateCall, notices, loopVars, host, run, memVars>>

\* startMessageLoop without the guard being set
startMessageLoop_NoFlag(h) == [h EXCEPT !.msgLoops = @ + 1]

\* startMessageLoop: if (messageLoopRunning) return; messageLoopRunning = true
startMessageLoop(h) ==
    IF h.messageLoopRunning THEN h
    ELSE [h EXCEPT !.messageLoopRunning = TRUE, !.msgLoops = @ + 1]

\* startIpcWatcher: if (ipcWatcherRunning) return; ipcWatcherRunning = true
startIpcWatcher(h) ==
    IF h.ipcWatcherRunning THEN h
    ELSE [h EXCEPT !.ipcWatcherRunning = TRUE, !.ipcLoops = @ + 1]

\* if (!groupSyncTimerStarted) { groupSyncTimerStarted = true; setInterval }
startGroupSyncTimer(h) ==
    IF h.groupSyncTimerStarted THEN h
    ELSE [h EXCEPT !.groupSyncTimerStarted = TRUE, !.syncTimers = @ + 1]

\* connection.update with connection === 'open'
ConnectionOpen ==
    /\ host.connection \in {"connecting", "open"}
    /\ host.opens < MaxOpens
    /\ host' = [startMessageLoop(startIpcWatcher(startGroupSyncTimer(host)))
                  EXCEPT !.connection = "open", !.opens = @ + 1,
                         !.reopened = @ \/ (host.opens > 0
                                               /\ host.connection = "connecting"),
                         !.schedStarts = @ + 1]
    /\ loop' = IF loop.pc = "off" THEN [loop EXCEPT !.pc = "sleep"] ELSE loop
    /\ sched' = IF sched.pc = "off" THEN [sched EXCEPT !.pc = "sleep"] ELSE sched
    /\ UNCHANGED <<regVars, msgVars, ipcVars, gateCall, notices, messages,
                   lastTimestamp, lastAgentTimestamp, run, memVars>>

\* connection.update with connection === 'close': reconnect, or exit when
\* logged out (the process and all it holds in memory are gone)
ConnectionClose(shouldReconnect) ==
    /\ host.connection \in {"connecting", "open"}
    /\ IF shouldReconnect
       THEN /\ host' = [host EXCEPT !.connection = "connecting"]
            /\ UNCHANGED <<pm, strangerCache, loop, sched>>
       ELSE /\ host' = [HostDown EXCEPT !.connection = "exited"]
            /\ pm' = PmIdle
            /\ strangerCache' = EmptyCache
            /\ loop' = LoopOff
            /\ sched' = SchedOff
    /\ UNCHANGED <<regVars, registeredGroups, lidToPhoneMap, now, ipcVars, gateCall,
                   notices, messages, lastTimestamp, lastAgentTimestamp, run, memVars>>

\* the process is alive
Alive == host.connection # "exited"

\* the timestamp of the newest stored message: messages arrive in the order
\* of their timestamps, several of them within one second
LatestStamp(table) ==
    IF table = {} THEN 0
    ELSE CHOOSE t \in {r.timestamp : r \in table} :
            \A r \in table : r.timestamp <= t

HostGroups ==
    <<Group(MainJid, MAIN_GROUP_FOLDER, "owner"), Group(FamJid, "fam", "family")>>

\* one task of the main group, due from the start
HostTasks == {Task(1, "main", MainJid, "interval", "60000", 0, "active")}

HostParticipants == {<<OwnerJid>>, <<OwnerJid, GuestJid>>}

InitHost ==
    /\ registryFile = [status |-> "ok",
                       content |-> [defaultRegistry EXCEPT !.owner = OwnerJid]]
    /\ lastOp = Op("init", NoJid, "", "")
    /\ registeredGroups = HostGroups
    /\ lidToPhoneMap = [l \in LidLocals |-> NoJid]
    /\ strangerCache = EmptyCache
    /\ now = 0
    /\ pm = PmIdle
    /\ tasks = HostTasks
    /\ nextTaskId = 2
    /\ ipcFiles = {}
    /\ quarantine = {}
    /\ fileSeq = 0
    /\ fileLog = NoLog
    /\ ipcLast = NoLast
    /\ ipcPass = PassIdle
    /\ ExtIdle

NextHost ==
    \/ ConnectionOpen
    \/ \E r \in BOOLEAN : ConnectionClose(r)
    \/ Alive /\ \E ts \in 1..MaxStamp :
                   /\ ts >= LatestStamp(messages)
                   /\ MessageArrives(MainJid, OwnerJid, "@Andy hello", ts)
    \/ Alive /\ LoopPoll
    \/ Alive /\ LoopDispatch
    \/ Alive /\ ProcessMessageMetadataFails
    \/ Alive /\ \E ps \in HostParticipants : ProcessMessageMetadata(ps)
    \/ Alive /\ \E o \in {"response", "null", "error"} : ProcessMessageAgentDone(o)
    \/ Alive /\ ProcessMessageThrows
    \/ Alive /\ \E ok \in BOOLEAN : LoopAdvance(ok)
    \/ Alive /\ LoopBreak
    \/ Alive /\ LoopBatchDone
    \/ Alive /\ SchedTick
    \/ Alive /\ SchedStartTask
    \/ Alive /\ SchedTaskDone
    \/ Alive /\ SchedTickDone

SpecHost == InitHost /\ [][NextHost]_vars

\* a direct call of hasStrangers, with what it found in the cache before
CallHasStrangers(groupJid, participants, forceRefresh) ==
    /\ LET h == hasStrangers(strangerCache, groupJid, participants, forceRefresh, now)
       IN /\ strangerCache' = h.cache
          /\ gateCall' = [n |-> 1, group |-> groupJid, participants |-> participants,
                          force |-> forceRefresh, result |-> h.result,
                          fresh |-> h.fresh,
                          before |-> strangerCache[normalizeJid(groupJid)],
                          at |-> now]
    /\ UNCHANGED <<regVars, registeredGroups, lidToPhoneMap, now, pm, ipcVars,
                   notices, loopVars, sched, host, run, memVars>>

\* the groups hasStrangers is asked about
GateGroups == {MainJid}

InitGate ==
    /\ registryFile = [status |-> "ok",
                       content |-> [defaultRegistry EXCEPT !.owner = OwnerJid]]
    /\ lastOp = Op("init", NoJid, "", "")
    /\ registeredGroups = HostGroups
    /\ lidToPhoneMap = [l \in LidLocals |-> NoJid]
    /\ strangerCache = EmptyCache
    /\ now = 0
    /\ pm = PmIdle
    /\ tasks = {}
    /\ nextTaskId = 1
    /\ ipcFiles = {}
    /\ quarantine = {}
    /\ fileSeq = 0
    /\ fileLog = NoLog
    /\ ipcLast = NoLast
    /\ ipcPass = PassIdle
    /\ ExtIdle

NextGate ==
    \/ \E g \in GateGroups, ps \in ParticipantLists, f \in BOOLEAN :
          CallHasStrangers(g, ps, f)
    \/ HostAddsUser(GuestJid, "family")
    \/ HostRemovesUser(GuestJid)
    \/ Tick

SpecGate == InitGate /\ [][NextGate]_vars

(***************************************************************************)
(* The sandbox orchestrator: runContainerAgent                             *)
(***************************************************************************)
\* the default timeout of a run, in milliseconds
CONTAINER_TIMEOUT == 300000

\* the size limit of the collected stdout, counted in chunks
CONTAINER_MAX_OUTPUT_SIZE == 3

OUTPUT_START_MARKER == "START"

OUTPUT_END_MARKER == "END"

\* the lines a sandbox writes to stdout: the two markers, a result object
\* with status success, one with status error, the JSON texts null and 42,
\* and a line that is not JSON
StdoutLines ==
    {OUTPUT_START_MARKER, OUTPUT_END_MARKER, "ok", "err", "null", "num", "text"}

\* the lines JSON.parse accepts
JsonLines == {"ok", "err", "null", "num"}

\* group.containerConfig?.timeout: absent, 0, or a number of milliseconds
TimeoutOverrides == {NULL, 0, TickMs}

ContainerOutput(status, result, error) ==
    [status |-> status, result |-> result, error |-> error]

\* a timer that ignores the group's override
timeoutOf_DefaultOnly(override) == CONTAINER_TIMEOUT

\* group.containerConfig?.timeout || CONTAINER_TIMEOUT
timeoutOf(override) ==
    IF override = NULL \/ override = 0 THEN CONTAINER_TIMEOUT ELSE override

\* String.indexOf on the lines of stdout: 0 stands for -1
indexOfLine(stdout, line) ==
    IF \E i \in DOMAIN stdout : stdout[i] = line
    THEN CHOOSE i \in DOMAIN stdout :
            stdout[i] = line /\ \A j \in 1..(i - 1) : stdout[j] # line
    ELSE 0

\* the text handed to JSON.parse when there is no fallback to the last line
jsonLine_NoFallback(stdout) ==
    LET startIdx == indexOfLine(stdout, OUTPUT_START_MARKER)
        endIdx == indexOfLine(stdout, OUTPUT_END_MARKER)
    IN IF startIdx # 0 /\ endIdx # 0 /\ endIdx > startIdx
       THEN SubSeq(stdout, startIdx + 1, endIdx - 1)
       ELSE <<>>

\* the text handed to JSON.parse: what lies between the first start marker
\* and the first end marker, or else the last line
jsonLine(stdout) ==
    LET startIdx == indexOfLine(stdout, OUTPUT_START_MARKER)
        endIdx == indexOfLine(stdout, OUTPUT_END_MARKER)
    IN IF startIdx # 0 /\ endIdx # 0 /\ endIdx > startIdx
       THEN SubSeq(stdout, startIdx + 1, endIdx - 1)
       ELSE IF stdout = <<>> THEN <<>> ELSE <<stdout[Len(stdout)]>>

\* JSON.parse(jsonLine) without the try: whatever the text is goes through
parseOutput_NoCatch(stdout) ==
    LET text == jsonLine(stdout) IN
    IF Len(text) = 1 /\ text[1] = "ok" THEN ContainerOutput("success", "text", "")
    ELSE IF Len(text) = 1 /\ text[1] = "err"
    THEN ContainerOutput("error", "null", "agent error")
    ELSE ContainerOutput("undefined", "undefined", "")

\* JSON.parse(jsonLine) and the read of output.status, inside the try: a throw
\* becomes the parse-failure result, anything else is resolved as it is
parseOutput(stdout) ==
    LET text == jsonLine(stdout) IN
    IF Len(text) # 1 \/ text[1] \notin JsonLines \/ text[1] = "null"
    THEN ContainerOutput("error", "null", "Failed to parse container output")
    ELSE IF text[1] = "ok" THEN ContainerOutput("success", "text", "")
    ELSE IF text[1] = "err" THEN ContainerOutput("error", "null", "agent error")
    ELSE ContainerOutput("undefined", "undefined", "")

\* a settled promise replaced by a later resolve
resolve_LastWins(r, output) ==
    [r EXCEPT !.resolves = @ + 1, !.result = output]

\* resolve(output): only the first call settles the promise
resolve(r, output) ==
    [r EXCEPT !.resolves = @ + 1,
              !.result = IF r.result = NoResult THEN output ELSE @]

\* clearTimeout(timeout)
clearTimeout(r) == [r EXCEPT !.timer = IF @ = "armed" THEN "cleared" ELSE @]

runVars == <<regVars, msgVars, ipcVars, gateCall, notices, loopVars, sched, host,
            memVars>>

\* runContainerAgent up to the return of the promise: spawn, timer armed
RunSpawn(override) ==
    /\ run.pc = "idle"
    /\ run' = [RunIdle EXCEPT !.pc = "running", !.override = override,
                              !.timeout = timeoutOf(override), !.timer = "armed"]
    /\ UNCHANGED runVars

\* time passes while the timer is pending
RunTick ==
    /\ run.pc = "running" /\ run.timer = "armed" /\ run.elapsed < run.timeout
    /\ run' = [run EXCEPT !.elapsed = @ + TickMs]
    /\ UNCHANGED runVars

\* container.stdout.on('data')
RunStdout(line) ==
    /\ run.pc = "running" /\ ~run.closed
    /\ Len(run.stdout) <= CONTAINER_MAX_OUTPUT_SIZE
    /\ ~run.stdoutTruncated
    /\ run' = IF 1 > CONTAINER_MAX_OUTPUT_SIZE - Len(run.stdout)
              THEN [run EXCEPT !.stdoutTruncated = TRUE]
              ELSE [run EXCEPT !.stdout = Append(@, line)]
    /\ UNCHANGED runVars

\* the timer's callback: kill and resolve with the timeout error
RunTimeout ==
    /\ run.pc = "running" /\ run.timer = "armed" /\ run.elapsed >= run.timeout
    /\ run' = resolve([run EXCEPT !.timer = "fired", !.killed = TRUE],
                      ContainerOutput("error", "null", "Container timed out"))
    /\ UNCHANGED runVars

\* container.on('close'): exit code 0, another code, or none after a signal
RunClose(code) ==
    /\ run.pc = "running" /\ ~run.closed
    /\ run' = resolve([clearTimeout(run) EXCEPT !.closed = TRUE, !.exitCode = code],
                      IF code # 0
                      THEN ContainerOutput("error", "null", "Container exited with code")
                      ELSE parseOutput(run.stdout))
    /\ UNCHANGED runVars

\* container.on('error'): the process could not be spawned or killed
RunError ==
    /\ run.pc = "running" /\ ~run.errored /\ ~run.closed
    /\ run' = resolve([clearTimeout(run) EXCEPT !.errored = TRUE],
                      ContainerOutput("error", "null", "Container spawn error"))
    /\ UNCHANGED runVars

InitRun ==
    /\ registryFile = [status |-> "ok",
                       content |-> [defaultRegistry EXCEPT !.owner = OwnerJid]]
    /\ lastOp = Op("init", NoJid, "", "")
    /\ registeredGroups = HostGroups
    /\ lidToPhoneMap = [l \in LidLocals |-> NoJid]
    /\ strangerCache = EmptyCache
    /\ now = 0
    /\ pm = PmIdle
    /\ tasks = {}
    /\ nextTaskId = 1
    /\ ipcFiles = {}
    /\ quarantine = {}
    /\ fileSeq = 0
    /\ fileLog = NoLog
    /\ ipcLast = NoLast
    /\ ipcPass = PassIdle
    /\ ExtIdle

NextRun ==
    \/ \E o \in TimeoutOverrides : RunSpawn(o)
    \/ RunTick
    \/ \E line \in StdoutLines : RunStdout(line)
    \/ RunTimeout
    \/ \E code \in {0, 1, NULL} : RunClose(code)
    \/ RunError

SpecRun == InitRun /\ [][NextRun]_vars

\* timers fire and time passes: the event loop runs the timer's callback
SpecRunLive == SpecRun /\ WF_vars(RunTick) /\ WF_vars(RunTimeout)

(***************************************************************************)
(* The task table under task commands and scheduler runs                   *)
(***************************************************************************)
\* a once task that is still to run, and a once task that has run
InitTasksSched ==
    {Task(1, "main", MainJid, "once", "1970-01-01T00:05:00.000Z", 300000, "active"),
     Task(2, "main", MainJid, "once", "1970-01-01T00:05:00.000Z", NULL, "completed")}

\* the task commands the main group's sandbox writes: schedules of each type,
\* valid and invalid, and pause, resume and cancel of the tasks
SchedTaskFiles ==
    {ScheduleCmd("main", MainJid, sc) :
        sc \in {Schedule("interval", "60000"), Schedule("interval", "0"),
                Schedule("interval", "soon"), Schedule("cron", "0 9 * * 1"),
                Schedule("cron", "not a cron"),
                Schedule("once", "tomorrow"), Schedule("weekly", "monday")}}
      \cup {TaskCmd(t, id) : t \in {"pause_task", "resume_task"}, id \in {1, 2}}
      \cup {TaskCmd("cancel_task", 1)}

InitTasks ==
    /\ registryFile = [status |-> "ok",
                       content |-> [defaultRegistry EXCEPT !.owner = OwnerJid]]
    /\ lastOp = Op("init", NoJid, "", "")
    /\ registeredGroups = InitGroupsIpc
    /\ lidToPhoneMap = [l \in LidLocals |-> NoJid]
    /\ strangerCache = EmptyCache
    /\ now = 0
    /\ pm = PmIdle
    /\ tasks = InitTasksSched
    /\ nextTaskId = 3
    /\ ipcFiles = {}
    /\ quarantine = {}
    /\ fileSeq = 0
    /\ fileLog = NoLog
    /\ ipcLast = NoLast
    /\ ipcPass = PassIdle
    /\ gateCall = NoCall
    /\ notices = NoNotices
    /\ messages = {}
    /\ lastTimestamp = 0
    /\ lastAgentTimestamp = [c \in ChatJids |-> 0]
    /\ loop = LoopOff
    /\ sched = [SchedOff EXCEPT !.pc = "sleep"]
    /\ host = HostDown
    /\ run = RunIdle
    /\ MemIdle

\* one command in flight at a time, written between two passes
NextTasks ==
    \/ \E d \in SchedTaskFiles :
          ipcFiles = {} /\ ipcPass.pc = "sleep" /\ SandboxWrite("main", "tasks", d)
    \/ IpcPassStart
    \/ IpcMessagesDone
    \/ IpcHandleTaskFile(TRUE)
    \/ IpcTasksDone
    \/ SchedTick
    \/ SchedStartTask
    \/ SchedTaskDone
    \/ SchedTickDone
    \/ Tick

SpecTasks == InitTasks /\ [][NextTasks]_vars

(***************************************************************************)
(* The mount list of a sandbox (container-runner.ts buildVolumeMounts)     *)
(***************************************************************************)
\* String.prototype.toLowerCase, over the letters the paths use
LowerChar(c) ==
    CASE c = "S" -> "s"
      [] c = "H" -> "h"
      [] OTHER -> c

toLowerCase(str) == [i \in DOMAIN str |-> LowerChar(str[i])]

\* String.prototype.includes
includes(str, pattern) ==
    \E i \in 0..(Len(str) - Len(pattern)) :
        SubSeq(str, i + 1, i + Len(pattern)) = pattern

blockedPatterns ==
    <<<<".", "s", "s", "h">>, <<".", "g", "n", "u", "p", "g">>,
      <<".", "g", "p", "g">>, <<".", "a", "w", "s">>,
      <<"c", "r", "e", "d", "e", "n", "t", "i", "a", "l", "s">>>>

\* fs.realpathSync: the path with symbolic links followed, or the error code
realpathSync(fs, p) ==
    IF p = LinkPath
    THEN [code |-> fs.link.code, path |-> fs.link.target]
    ELSE IF p = EmptyPath THEN [code |-> "ENOENT", path |-> p]
    ELSE [code |-> "ok", path |-> p]

\* fs.statSync(p).isDirectory()
isDirectory(p) == p # FilePath

containsBlocked(resolvedPath) ==
    \E i \in DOMAIN blockedPatterns :
        includes(toLowerCase(resolvedPath), blockedPatterns[i])

\* the validation applied to the configured path instead of the resolved one
validateVaultMount_ChecksConfiguredPath(fs, vaultPath) ==
    IF containsBlocked(vaultPath) THEN "throw"
    ELSE IF realpathSync(fs, vaultPath).code # "ok" THEN "throw"
    ELSE IF ~isDirectory(realpathSync(fs, vaultPath).path) THEN "throw"
    ELSE "ok"

\* "throw" when the path does not resolve, resolves into a blocked location
\* or is not a directory
validateVaultMount(fs, vaultPath) ==
    LET resolved == realpathSync(fs, vaultPath) IN
    IF resolved.code # "ok" THEN "throw"
    ELSE IF containsBlocked(resolved.path) THEN "throw"
    ELSE IF ~isDirectory(resolved.path) THEN "throw"
    ELSE "ok"

VolumeMount(hostPath, containerPath, readonly) ==
    [hostPath |-> hostPath, containerPath |-> containerPath, readonly |-> readonly]

ProjectRoot == <<"cwd">>

\* the segments of a folder name, split at the separator
segments(name) ==
    CASE name = "../owner" -> <<"..", "owner">>
      [] OTHER -> <<name>>

\* path.normalize over segments: "." is dropped, ".." takes back a segment
RECURSIVE normalize(_, _)
normalize(done, rest) ==
    IF rest = <<>> THEN done
    ELSE IF Head(rest) = "." THEN normalize(done, Tail(rest))
    ELSE IF Head(rest) = ".." /\ done # <<>> /\ done[Len(done)] # ".."
    THEN normalize(SubSeq(done, 1, Len(done) - 1), Tail(rest))
    ELSE normalize(Append(done, Head(rest)), Tail(rest))

\* path.join: the segments of its arguments, normalised
pathJoin(parts) == normalize(<<>>, parts)

GroupsDir(folder) == pathJoin(<<"groups">> \o segments(folder))
IpcDir(folder) == pathJoin(<<"data", "ipc">> \o segments(folder))
EnvDir == pathJoin(<<"data", "env">>)

getSessionDirPath(groupFolder, tier) ==
    CASE tier = "owner" -> pathJoin(<<"data", "sessions", "owner", ".claude">>)
      [] tier = "family" -> pathJoin(<<"data", "sessions", "family", ".claude">>)
      [] tier = "friend" -> pathJoin(<<"data", "sessions", "friends">>
                                      \o segments(groupFolder) \o <<".claude">>)

\* effectiveTier || group.contextTier || (isMain ? 'owner' : 'friend')
mountContextTier(groupTier, isMain, effectiveTier) ==
    IF effectiveTier # NoTier THEN effectiveTier
    ELSE IF groupTier # NoTier THEN groupTier
    ELSE IF isMain THEN "owner" ELSE "friend"

\* a vault, mounted read-write under its configured path when it is enabled
\* and passes the validation, skipped otherwise
vaultMount(fs, vault, containerPath) ==
    IF vault.enabled /\ vault.path # EmptyPath /\ validateVaultMount(fs, vault.path) = "ok"
    THEN <<VolumeMount(vault.path, containerPath, FALSE)>>
    ELSE <<>>

globalMount(fs) ==
    IF fs.globalDir
    THEN <<VolumeMount(GroupsDir("global"), "/workspace/global", TRUE)>>
    ELSE <<>>

\* the switch with the friend branch given the shared vault as well
tierMounts_FriendGetsVault(fs, cfg, folder, contextTier) ==
    IF contextTier = "owner"
    THEN <<VolumeMount(ProjectRoot, "/workspace/project", FALSE)>>
         \o vaultMount(fs, cfg.privateVault, "/workspace/vaults/private")
         \o vaultMount(fs, cfg.mainVault, "/workspace/vaults/main")
         \o <<VolumeMount(GroupsDir(folder), "/workspace/group", FALSE)>>
    ELSE vaultMount(fs, cfg.mainVault, "/workspace/vaults/main")
         \o <<VolumeMount(GroupsDir(folder), "/workspace/group", FALSE)>>
         \o globalMount(fs)

\* switch (contextTier)
tierMounts(fs, cfg, folder, contextTier) ==
    IF contextTier = "owner"
    THEN <<VolumeMount(ProjectRoot, "/workspace/project", FALSE)>>
         \o vaultMount(fs, cfg.privateVault, "/workspace/vaults/private")
         \o vaultMount(fs, cfg.mainVault, "/workspace/vaults/main")
         \o <<VolumeMount(GroupsDir(folder), "/workspace/group", FALSE)>>
    ELSE IF contextTier = "family"
    THEN vaultMount(fs, cfg.mainVault, "/workspace/vaults/main")
         \o <<VolumeMount(GroupsDir(folder), "/workspace/group", FALSE)>>
         \o globalMount(fs)
    ELSE <<VolumeMount(GroupsDir(folder), "/workspace/group", FALSE)>>
         \o globalMount(fs)

envMount(fs) ==
    IF fs.envVars THEN <<VolumeMount(EnvDir, "/workspace/env-dir", TRUE)>> ELSE <<>>

\* the host's allowlist of extra mounts: the roots and whether they may be
\* written
allowedRoots == {[path |-> VaultPath, readonlyOnly |-> TRUE],
                 [path |-> SshPath, readonlyOnly |-> TRUE],
                 [path |-> UpperSshPath, readonlyOnly |-> TRUE]}

\* the mount validator applied to one requested mount
validateMount(fs, requested) ==
    LET resolved == realpathSync(fs, requested.hostPath) IN
    IF resolved.code # "ok" THEN <<>>
    ELSE IF containsBlocked(resolved.path) THEN <<>>
    ELSE IF ~\E root \in allowedRoots :
               /\ root.path = resolved.path
               /\ root.readonlyOnly => requested.readonly
         THEN <<>>
    ELSE <<VolumeMount(resolved.path, requested.containerPath, requested.readonly)>>

RECURSIVE validateAdditionalMounts(_, _)
validateAdditionalMounts(fs, requestedMounts) ==
    IF requestedMounts = <<>> THEN <<>>
    ELSE validateMount(fs, Head(requestedMounts))
         \o validateAdditionalMounts(fs, Tail(requestedMounts))

buildVolumeMounts(fs, cfg, folder, contextTier, additionalMounts) ==
    tierMounts(fs, cfg, folder, contextTier)
    \o <<VolumeMount(getSessionDirPath(folder, contextTier), "/home/node/.claude", FALSE)>>
    \o <<VolumeMount(IpcDir(folder), "/workspace/ipc", FALSE)>>
    \o envMount(fs)
    \o validateAdditionalMounts(fs, additionalMounts)

\* the extra mounts a group's containerConfig asks for
ExtraRequests ==
    {<<>>,
     <<VolumeMount(LinkPath, "/workspace/extra/docs", TRUE)>>,
     <<VolumeMount(UpperSshPath, "/workspace/extra/keys", TRUE),
       VolumeMount(VaultPath, "/workspace/extra/notes", FALSE)>>}

\* runContainerAgent builds the mount list of an invocation
BuildVolumeMounts(group, isMain, effectiveTier, additionalMounts) ==
    LET contextTier == mountContextTier(group.contextTier, isMain, effectiveTier) IN
    /\ run.pc = "idle"
    /\ run' = [run EXCEPT !.mount =
                  [built |-> TRUE, folder |-> group.folder, isMain |-> isMain,
                   tier |-> contextTier, fsAtBuild |-> run.hostFs,
                   mounts |-> buildVolumeMounts(run.hostFs, run.vaultConfig,
                                                group.folder, contextTier,
                                                additionalMounts)]]
    /\ UNCHANGED runVars

\* the host's administrator edits data/vault-config.json
HostSetsVault(which, vault) ==
    /\ run' = [run EXCEPT !.vaultConfig[which] = vault]
    /\ run'.vaultConfig # run.vaultConfig
    /\ UNCHANGED runVars

\* something on the host changes where /l leads, or what exists
HostFsChanges(fs) ==
    /\ run' = [run EXCEPT !.hostFs = fs]
    /\ fs # run.hostFs
    /\ UNCHANGED runVars

VaultChoices ==
    {Vault(FALSE, VaultPath), Vault(TRUE, EmptyPath), Vault(TRUE, VaultPath),
     Vault(TRUE, LinkPath)}

HostFsChoices ==
    {HostFs("ok", t, TRUE, TRUE) : t \in {VaultPath, SshPath, UpperSshPath, FilePath}}
      \cup {HostFs(c, LinkPath, FALSE, FALSE) : c \in {"ENOENT", "EACCES"}}

\* the registered groups: the main group, a family group, and a group
\* registered under a folder name that climbs out of its parent
MountGroups ==
    {Group(MainJid, MAIN_GROUP_FOLDER, NoTier), Group(FamJid, "fam", "family"),
     Group(FrJid, "../owner", NoTier)}

NextMounts ==
    \/ \E g \in MountGroups, t \in {NoTier, "owner", "family", "friend"},
          x \in ExtraRequests :
          /\ g.jid = FrJid => x = <<>>
          /\ BuildVolumeMounts(g, g.folder = MAIN_GROUP_FOLDER, t, x)
    \/ \E w \in {"privateVault", "mainVault"}, v \in VaultChoices : HostSetsVault(w, v)
    \/ \E fs \in HostFsChoices : HostFsChanges(fs)

SpecMounts == InitRun /\ [][NextMounts]_vars

(***************************************************************************)
(* Session ids across agent turns (index.ts runAgent, loadState)           *)
(***************************************************************************)
SessionIds == {"s1", "s2"}

\* the variables outside the session and registry-cache state
restVars == <<regVars, msgVars, ipcVars, gateCall, notices, loopVars, sched, host, run>>

\* what runContainerAgent hands to runAgent: the status and newSessionId
\* ('' when the result has none)
AgentOutputs ==
    {[status |-> st, newSessionId |-> id] :
        st \in {"success", "error"}, id \in SessionIds \cup {""}}

\* the store without effect
storeSession_Never(mem, folder, newSessionId) == mem

\* if (output.newSessionId) sessions[group.folder] = output.newSessionId
storeSession(mem, folder, newSessionId) ==
    IF newSessionId # "" THEN [mem EXCEPT ![folder] = newSessionId] ELSE mem

\* runAgent up to the await: the stored session id is read and passed on
RunAgentBegin(folder) ==
    /\ agent.pc = "idle"
    /\ agent' = [agent EXCEPT !.pc = "running", !.folder = folder,
                              !.sessionId = sessions[folder],
                              !.last = "begin", !.out = ""]
    /\ UNCHANGED <<restVars, sessions, sessionsFile,
                   registryCache>>

\* runAgent after the await: the new session id is stored and saved; a save
\* that throws is caught and leaves sessions.json as it was
RunAgentReturn(output, saveOk) ==
    LET stored == storeSession(sessions, agent.folder, output.newSessionId)
        written == output.newSessionId # "" /\ saveOk
    IN
    /\ agent.pc = "running"
    /\ sessions' = stored
    /\ sessionsFile' = IF written THEN stored ELSE sessionsFile
    /\ agent' = [agent EXCEPT
          !.pc = "idle", !.last = "return", !.out = output.newSessionId,
          !.lastNew = IF output.newSessionId # ""
                      THEN [@ EXCEPT ![agent.folder] = output.newSessionId]
                      ELSE @,
          !.saved = IF written THEN [f \in SessionFolders |-> TRUE]
                    ELSE IF output.newSessionId # ""
                    THEN [@ EXCEPT ![agent.folder] = FALSE]
                    ELSE @]
    /\ UNCHANGED <<restVars, registryCache>>

\* the snapshot writes before the try throw: runAgent ends without a result
RunAgentThrows ==
    /\ agent.pc = "running"
    /\ agent' = [agent EXCEPT !.pc = "idle", !.last = "throw", !.out = ""]
    /\ UNCHANGED <<restVars, sessions, sessionsFile,
                   registryCache>>

\* the process is started again: loadState reads sessions.json; an id whose
\* save failed is gone
HostRestart ==
    /\ sessions' = loadJson([status |-> "ok", content |-> sessionsFile], NoSessions)
    /\ agent' = [agent EXCEPT
          !.pc = "idle", !.last = "restart", !.out = "",
          !.lastNew = [f \in SessionFolders |->
                          IF agent.saved[f] THEN agent.lastNew[f] ELSE sessionsFile[f]],
          !.saved = [f \in SessionFolders |-> TRUE]]
    /\ UNCHANGED <<restVars, sessionsFile, registryCache>>

NextSession ==
    \/ \E f \in SessionFolders : RunAgentBegin(f)
    \/ \E o \in AgentOutputs, ok \in BOOLEAN : RunAgentReturn(o, ok)
    \/ RunAgentThrows
    \/ HostRestart

SpecSession == InitRun /\ [][NextSession]_vars

(***************************************************************************)
(* The user registry with a read cache (src/unnamed/part_003, first half)  *)
(***************************************************************************)
CACHE_TTL_MS == 5000

RegistryCache(registry, loadedAt) ==
    [present |-> TRUE, content |-> registry, at |-> loadedAt]

\* registryCache && now - registryCache.loadedAt < CACHE_TTL_MS
cacheLive(cache, nowT) == cache.present /\ nowT - cache.at < CACHE_TTL_MS

\* loadUserRegistry: the cached object while it is live, else the file's
\* content, which becomes the cached object
loadUserRegistryCached(cache, file, nowT) ==
    IF cacheLive(cache, nowT)
    THEN [registry |-> cache.content, cache |-> cache]
    ELSE [registry |-> loadJson(file, defaultRegistry),
          cache |-> RegistryCache(loadJson(file, defaultRegistry), nowT)]

\* what a call of the caching registry hands back: its return value, the
\* file and the cache afterwards
CachedResult(ret, file, cache) == [ret |-> ret, file |-> file, cache |-> cache]

\* the save that leaves the cache entry in place
saveUserRegistryCached_KeepsCache(loaded, file, registry, saveOk, ret) ==
    IF saveOk
    THEN CachedResult(ret, [status |-> "ok", content |-> registry],
                      [loaded.cache EXCEPT !.content = registry])
    ELSE CachedResult("throw", file, [loaded.cache EXCEPT !.content = registry])

\* saveUserRegistry: the caller has changed the loaded object, which is the
\* cached object, in place; a successful write drops the cache entry, a
\* failed one throws before invalidateRegistryCache
saveUserRegistryCached(loaded, file, registry, saveOk, ret) ==
    IF saveOk
    THEN CachedResult(ret, [status |-> "ok", content |-> registry], NoRegistryCache)
    ELSE CachedResult("throw", file, [loaded.cache EXCEPT !.content = registry])

getUserTierCached(cache, file, nowT, jid) ==
    LET loaded == loadUserRegistryCached(cache, file, nowT) IN
    CachedResult(getUserTierFromRegistry(normalizeJid(jid), loaded.registry),
                 file, loaded.cache)

initializeOwnerCached(cache, file, nowT, jid, saveOk) ==
    LET loaded == loadUserRegistryCached(cache, file, nowT)
        registry == loaded.registry
    IN
    IF registry.owner # NoJid
    THEN CachedResult("throw", file, loaded.cache)
    ELSE saveUserRegistryCached(loaded, file,
            [registry EXCEPT !.owner = normalizeJid(jid)], saveOk, "ok")

addUserCached(cache, file, nowT, jid, tier, saveOk) ==
    LET normalizedJid == normalizeJid(jid)
        loaded == loadUserRegistryCached(cache, file, nowT)
        registry == loaded.registry
        currentTier == getUserTierFromRegistry(normalizedJid, registry)
    IN
    IF currentTier # "stranger"
    THEN CachedResult("false", file, loaded.cache)
    ELSE saveUserRegistryCached(loaded, file,
            IF tier = "family"
            THEN [registry EXCEPT !.family = Append(@, normalizedJid)]
            ELSE [registry EXCEPT !.friends = Append(@, normalizedJid)],
            saveOk, "true")

removeUserCached(cache, file, nowT, jid, saveOk) ==
    LET normalizedJid == normalizeJid(jid)
        loaded == loadUserRegistryCached(cache, file, nowT)
        registry == loaded.registry
        familyIndex == FindIndex(registry.family, normalizedJid)
        friendIndex == FindIndex(registry.friends, normalizedJid)
    IN
    IF registry.owner # NoJid /\ normalizeJid(registry.owner) = normalizedJid
    THEN CachedResult("throw", file, loaded.cache)
    ELSE IF familyIndex # 0
    THEN saveUserRegistryCached(loaded, file,
            [registry EXCEPT !.family = Splice(@, familyIndex)], saveOk, "true")
    ELSE IF friendIndex # 0
    THEN saveUserRegistryCached(loaded, file,
            [registry EXCEPT !.friends = Splice(@, friendIndex)], saveOk, "true")
    ELSE CachedResult("false", file, loaded.cache)

\* a call of the caching registry as a step of the host
CachedCall(op, jid, arg, r) ==
    /\ registryFile' = r.file
    /\ registryCache' = r.cache
    /\ lastOp' = Op(op, jid, arg, r.ret)
    /\ UNCHANGED <<msgVars, ipcVars, gateCall, notices, loopVars, sched, host, run,
                   sessions, sessionsFile, agent>>

CallInitializeOwnerCached(jid, saveOk) ==
    CachedCall("initializeOwner", jid, "",
               initializeOwnerCached(registryCache, registryFile, now, jid, saveOk))

CallAddUserCached(jid, tier, saveOk) ==
    CachedCall("addUser", jid, tier,
               addUserCached(registryCache, registryFile, now, jid, tier, saveOk))

CallRemoveUserCached(jid, saveOk) ==
    CachedCall("removeUser", jid, "",
               removeUserCached(registryCache, registryFile, now, jid, saveOk))

CallGetUserTierCached(jid) ==
    CachedCall("getUserTier", jid, "",
               getUserTierCached(registryCache, registryFile, now, jid))

\* the identities the calls are made for: one with and without its device
\* suffix, and a second one
CacheJids == {Jid("u1", "1", PhoneDomain), OwnerJid, GuestJid}

NextCache ==
    \/ \E j \in CacheJids, ok \in BOOLEAN : CallInitializeOwnerCached(j, ok)
    \/ \E j \in CacheJids, t \in {"family", "friend"}, ok \in BOOLEAN :
          CallAddUserCached(j, t, ok)
    \/ \E j \in CacheJids, ok \in BOOLEAN : CallRemoveUserCached(j, ok)
    \/ \E j \in CacheJids : CallGetUserTierCached(j)
    \/ Tick

SpecCache == InitPolicy /\ [][NextCache]_vars

(***************************************************************************)
(* Claims                                                                  *)
(***************************************************************************)
\* the normalised identities a registry holds
RegistryEntries(registry) ==
    {normalizeJid(registry.family[i]) : i \in DOMAIN registry.family}
      \cup {normalizeJid(registry.friends[i]) : i \in DOMAIN registry.friends}
      \cup (IF registry.owner = NoJid THEN {} ELSE {normalizeJid(registry.owner)})

Rank(t) == CASE t = "owner" -> 0 [] t = "family" -> 1 [] OTHER -> 2

InferredTier(senderTier) ==
    CASE senderTier = "owner" -> "owner"
      [] senderTier = "family" -> "family"
      [] OTHER -> "friend"

C3_OnlyOwnerFamilyInvoke ==
    /\ \A j \in Senders :
          canInvoke(translateJid(j), TRUE).canInvoke
            <=> getUserTier(translateJid(j)) \in {"owner", "family"}
    /\ pm.spawned => pm.authTier \in {"owner", "family"}
    /\ (pm.pc = "done" /\ pm.authTier \in {"friend", "stranger"}) => ~pm.spawned

\* C3 witness: a friend wrote the trigger phrase in the main group, the
\* stranger gate let the chat through, and no sandbox was started.
C3_Witness ==
    /\ pm.pc = "done"
    /\ pm.group.folder = MAIN_GROUP_FOLDER
    /\ pm.gate = "false"
    /\ pm.authTier = "friend"
    /\ TriggerMatches(pm.msg.content)
    /\ ~pm.spawned

\* C4: when the stranger gate answers true for a group chat, the message is
\* dropped whatever the sender's tier: no sandbox is started and nothing is
\* sent to that chat.
C4_StrangerGateSuppresses ==
    pm.gate = "true" =>
        /\ ~pm.spawned
        /\ pm.pc = "done"
        /\ pm.msg.chat_jid \notin pm.sent

\* C4 witness: the owner wrote the trigger phrase in a group with a
\* stranger; the message was dropped and the owner was notified directly.
C4_Witness ==
    /\ pm.gate = "true"
    /\ pm.senderTier = "owner"
    /\ TriggerMatches(pm.msg.content)
    /\ pm.sent = {OwnerJid}
    /\ ~pm.spawned

\* the source tier the authorization matrix gives a namespace directory: the
\* contextTier of the registered group whose folder is the directory name,
\* friend when there is none or it has no contextTier
SourceTier(ns, groups) ==
    LET S == {i \in DOMAIN groups : groups[i].folder = ns} IN
    IF S = {} THEN "friend"
    ELSE LET g == groups[CHOOSE i \in S : \A k \in S : i <= k] IN
         IF g.contextTier \in {"owner", "family", "friend"} THEN g.contextTier
         ELSE "friend"

TaskCommandTypes == {"schedule_task", "pause_task", "resume_task", "cancel_task"}

AdminCommandTypes == {"refresh_groups", "register_group", "add_user", "remove_user"}

\* a command from namespace L.ns about a task of another namespace
CrossNamespace(L, table) ==
    \/ /\ L.data.type \in {"pause_task", "resume_task", "cancel_task"}
       /\ \E t \in table : t.id = L.data.taskId /\ t.group_folder # L.ns
    \/ /\ L.data.type = "schedule_task"
       /\ L.data.groupFolder \notin {"", L.ns}

QueueIds == {f.id : f \in ipcFiles}

QuarantineIds == {q.id : q \in quarantine}

\* C5: the tier a task command file is authorized with is the one its
\* namespace directory has in the group registry at that moment, whatever
\* identity fields its payload carries
C5_TierFromDirectoryOnly ==
    [][(ipcLast' # ipcLast /\ ipcLast'.queue = "tasks" /\ ipcLast'.data # Unparsable)
         => ipcLast'.tier = SourceTier(ipcLast'.ns, registeredGroups)]_vars

\* a command of the family namespace whose payload names the main group's
\* folder was authorized as family
C5_Witness ==
    /\ ipcLast.queue = "tasks" /\ ipcLast.ns = "fam"
    /\ ipcLast.data.type = "schedule_task" /\ ipcLast.data.groupFolder = "main"
    /\ ipcLast.tier = "family"
    /\ tasks = InitTasksIpc

\* C6: for the four task commands, a friend source changes no task, a family
\* source creates or changes only tasks of its own folder, an owner source
\* acts on any task, and a command of a non-owner namespace about another
\* namespace's task leaves the task table unchanged
C6_TaskCommandMatrix ==
    [][(ipcLast' # ipcLast /\ ipcLast'.queue = "tasks"
          /\ ipcLast'.data.type \in TaskCommandTypes)
         => LET L == ipcLast'
                T == SourceTier(L.ns, registeredGroups)
            IN /\ T \notin {"owner", "family"} => tasks' = tasks
               /\ T = "family" =>
                    \A t \in (tasks \ tasks') \cup (tasks' \ tasks) :
                       t.group_folder = L.ns
               /\ (T # "owner" /\ CrossNamespace(L, tasks)) => tasks' = tasks
               /\ (T = "owner" /\ L.data.type = "pause_task") =>
                    \A t \in tasks' : t.id = L.data.taskId => t.status = "paused"
               /\ (T = "owner" /\ L.data.type = "resume_task") =>
                    \A t \in tasks' : t.id = L.data.taskId => t.status = "active"
               /\ (T = "owner" /\ L.data.type = "cancel_task") =>
                    \A t \in tasks' : t.id # L.data.taskId]_vars

\* the family namespace asked to cancel the task of another namespace, and
\* the task is still there
C6_Witness ==
    /\ ipcLast.queue = "tasks" /\ ipcLast.ns = "fam" /\ ipcLast.tier = "family"
    /\ ipcLast.data.type = "cancel_task" /\ ipcLast.taskOwner = "fr"
    /\ \E t \in tasks : t.id = ipcLast.data.taskId /\ t.group_folder = "fr"

\* C7: refresh_groups, register_group, add_user and remove_user from a
\* namespace whose tier is not owner cause no sync and leave the principal
\* registry and the registered-groups map unchanged
C7_AdminCommandsOwnerOnly ==
    [][(ipcLast' # ipcLast /\ ipcLast'.queue = "tasks"
          /\ ipcLast'.data.type \in AdminCommandTypes
          /\ SourceTier(ipcLast'.ns, registeredGroups) # "owner")
         => /\ registeredGroups' = registeredGroups
            /\ registryFile' = registryFile
            /\ ~ipcLast'.synced]_vars

\* the family namespace asked to add a user, and the registry does not hold
\* that user
C7_Witness ==
    /\ ipcLast.queue = "tasks" /\ ipcLast.ns = "fam" /\ ipcLast.tier = "family"
    /\ ipcLast.data.type = "add_user"
    /\ getUserTier(ipcLast.data.userJid) = "stranger"

\* C8: a message file of namespace S addressed to channel X is sent only if
\* S is the main group or X is registered with folder S; otherwise nothing
\* is sent
C8_MessageOnlyOwnNamespace ==
    [][(ipcLast' # ipcLast /\ ipcLast'.queue = "messages")
         => LET L == ipcLast'
                X == L.data.chatJid
                allowed ==
                    \/ L.ns = MAIN_GROUP_FOLDER
                    \/ \E i \in DOMAIN registeredGroups :
                          /\ registeredGroups[i].jid = X
                          /\ registeredGroups[i].folder = L.ns
            IN /\ L.sentTo \subseteq {X}
               /\ ~allowed => L.sentTo = {}]_vars

\* the family namespace addressed a message to the main group's channel and
\* nothing was sent
C8_Witness ==
    /\ ipcLast.queue = "messages" /\ ipcLast.ns = "fam"
    /\ ipcLast.data = MessageCmd(MainJid)
    /\ ipcLast.sentTo = {}

\* C9 as stated: a task command of a non-owner namespace about another
\* namespace's task ends in the quarantine directory
C9_DeniedFileQuarantined ==
    [][(ipcLast' # ipcLast /\ ipcLast'.queue = "tasks"
          /\ ipcLast'.data.type \in TaskCommandTypes
          /\ CrossNamespace(ipcLast', tasks)
          /\ SourceTier(ipcLast'.ns, registeredGroups) # "owner")
         => ipcLast'.id \in {q.id : q \in quarantine'}]_vars

\* C9 amended: a task command of a non-owner namespace about another
\* namespace's task returns normally; the file is deleted from its queue,
\* nothing is added to the quarantine directory and the task table is
\* unchanged
C9_DeniedFileDeleted ==
    [][(ipcLast' # ipcLast /\ ipcLast'.queue = "tasks"
          /\ ipcLast'.data.type \in TaskCommandTypes
          /\ CrossNamespace(ipcLast', tasks)
          /\ SourceTier(ipcLast'.ns, registeredGroups) # "owner")
         => /\ ipcLast'.id \notin {f.id : f \in ipcFiles'}
            /\ quarantine' = quarantine
            /\ tasks' = tasks]_vars

\* the friend namespace asked to pause the family namespace's task; the file
\* is gone from the queue and is not in quarantine
C9_Witness ==
    /\ ipcLast.queue = "tasks" /\ ipcLast.ns = "fr" /\ ipcLast.tier = "friend"
    /\ ipcLast.data.type = "pause_task" /\ ipcLast.taskOwner = "fam"
    /\ ipcLast.id \notin QueueIds \cup QuarantineIds

\* C10: a file is read by at most one pass; once handled it is out of its
\* queue, in quarantine under its namespace-prefixed name exactly when its
\* processing threw, and only handled files are in quarantine
C10_ConsumedAtMostOnce ==
    \A id \in 1..MaxFiles :
        LET g == fileLog[id] IN
        /\ g.reads <= 1
        /\ g.reads = 1 =>
             /\ id \notin QueueIds
             /\ g.threw => {q \in quarantine : q.id = id}
                              = {[id |-> id, name |-> <<g.ns, id>>]}
             /\ ~g.threw => id \notin QuarantineIds
        /\ g.reads = 0 => id \notin QuarantineIds

\* one file was quarantined after a throw and another deleted after a normal
\* return
C10_Witness ==
    \E i, j \in 1..MaxFiles :
        /\ fileLog[i].reads = 1 /\ fileLog[i].threw /\ i \in QuarantineIds
        /\ fileLog[j].reads = 1 /\ ~fileLog[j].threw
        /\ j \notin QueueIds \cup QuarantineIds

\* the group folder of the scheduled task whose sandbox run is in flight
RunningTaskFolder == getTaskById(tasks, sched.running).group_folder

\* C11: no two sandbox invocations for the same group are in flight at the
\* same time, whatever the interleaving of the message loop and the scheduler
C11_NoOverlapPerGroup ==
    ~(/\ pm.pc = "agent" /\ pm.spawned
      /\ sched.running # 0
      /\ RunningTaskFolder = pm.group.folder)

\* C12: a step taken while the message's sandbox invocation has ended in an
\* error result leaves the watermark lastTimestamp where it was
C12_WatermarkOnlyAfterSuccess ==
    [][(pm.pc = "done" /\ pm.spawned /\ pm.outcome = "error")
          => lastTimestamp' = lastTimestamp]_vars

\* the chats the message loop polls
RegisteredJids == {registeredGroups[i].jid : i \in DOMAIN registeredGroups}

\* C13: when the loop abandons a batch because processing a message threw,
\* the watermark is still before that message, so the next poll returns it
C13_ThrownMessagePolledAgain ==
    [][(loop.pc = "batch" /\ pm.pc = "threw" /\ pm'.pc = "idle")
          => \E i \in DOMAIN getNewMessages(messages', RegisteredJids, lastTimestamp') :
                getNewMessages(messages', RegisteredJids, lastTimestamp')[i] = pm.msg]_vars

\* C14: however many times the connection opens, closes and reopens, there
\* is at most one message loop, one command-channel watcher and one
\* group-sync timer
C14_LoopsStartedOnce ==
    /\ host.msgLoops <= 1
    /\ host.ipcLoops <= 1
    /\ host.syncTimers <= 1
    /\ host.opens > 0 => (host.msgLoops = 1 /\ host.ipcLoops = 1 /\ host.syncTimers = 1)

\* the connection opened, closed, and opened again
C14_Witness ==
    /\ host.opens = MaxOpens /\ host.reopened /\ host.connection = "open"
    /\ host.msgLoops = 1 /\ host.ipcLoops = 1 /\ host.syncTimers = 1

\* C20: within one refresh cycle of a group's stranger-cache entry the owner
\* has been sent at most one alert about that group
C20_OneNoticePerCycle ==
    \A g \in DOMAIN notices : notices[g] <= 1

\* the participants of the last call, as the set of their normalised identities
CalledSet == Range(MapSeq(gateCall.participants))

\* the last call found an entry younger than the TTL and did not force a refresh
CalledWithinTtl ==
    /\ gateCall.n > 0 /\ ~gateCall.force
    /\ gateCall.before.present
    /\ gateCall.at - gateCall.before.lastChecked < CACHE_TTL

\* C18: a call within the TTL, without forceRefresh, for the participant set
\* the entry holds, returns the cached answer and does not classify again
C18_SameSetServedFromCache ==
    (CalledWithinTtl /\ CalledSet = Range(gateCall.before.participants))
        => (~gateCall.fresh /\ gateCall.result = gateCall.before.hasStrangers)

\* C19: a call for a participant set other than the one the entry holds
\* classifies again, also within the TTL
C19_RecomputesOnAnySetChange ==
    (gateCall.n > 0 /\ gateCall.before.present
       /\ CalledSet # Range(gateCall.before.participants))
        => gateCall.fresh

\* an error result with the given text
ErrorResult(text) == ContainerOutput("error", "null", text)

\* the step settles the promise
Settles == run.pc = "running" /\ run.result = NoResult /\ run'.result # NoResult

\* stdout holds a start marker followed, at its first end marker, by an end
SentinelBlock(stdout) ==
    /\ indexOfLine(stdout, OUTPUT_START_MARKER) # 0
    /\ indexOfLine(stdout, OUTPUT_END_MARKER)
          > indexOfLine(stdout, OUTPUT_START_MARKER)

\* what is parsed is not one line of JSON, or is the JSON text null
UnparsableOutput(stdout) ==
    \/ Len(jsonLine(stdout)) # 1
    \/ jsonLine(stdout)[1] \notin {"ok", "err", "num"}

ClosedWithZero == run.closed /\ run.exitCode = 0 /\ run.resolves = 1

ClaimedTimeout ==
    IF run.override # NULL /\ run.override > 0 THEN run.override
    ELSE CONTAINER_TIMEOUT

\* a settled run keeps its result
C17_ResultKept ==
    [][run.result # NoResult => run'.result = run.result]_vars

\* a timeout result comes at the first tick at or after the claimed timeout,
\* with the sandbox killed
C17_TimeoutAtDeadline ==
    [](run.result = ErrorResult("Container timed out")
          => /\ run.killed
             /\ run.elapsed >= ClaimedTimeout
             /\ run.elapsed - TickMs < ClaimedTimeout)

\* a spawned run is settled in the end
C17_Settles == (run.pc = "running") ~> (run.result # NoResult)

C21_SpawnIffMainOrTrigger ==
    (pm.pc \in {"agent", "done"} /\ pm.authTier \in {"owner", "family"})
        => /\ pm.gate \in {"none", "false"}
           /\ pm.spawned <=> (\/ pm.group.folder = MAIN_GROUP_FOLDER
                              \/ TriggerMatches(pm.msg.content))

\* a message without the trigger in the main group reached the sandbox
C21_Witness ==
    /\ pm.pc = "agent" /\ pm.spawned
    /\ pm.group.folder = MAIN_GROUP_FOLDER
    /\ ~TriggerMatches(pm.msg.content)
    /\ pm.authTier = "owner"

\* C22: a task's next_run is null exactly when its status is completed
C22_NullNextRunIffCompleted ==
    \A t \in tasks : (t.next_run = NULL) <=> (t.status = "completed")

\* C23: the status of a task that stays in the table changes only from
\* active to paused, from paused to active, or from active to completed
C23_StatusTransitions ==
    [][\A t \in tasks, u \in tasks' :
          (t.id = u.id /\ t.status # u.status)
             => <<t.status, u.status>> \in {<<"active", "paused">>,
                                            <<"paused", "active">>,
                                            <<"active", "completed">>}]_vars

\* the schedule parses into a next run time
ValidSchedule(stype, svalue) ==
    \/ stype = "cron" /\ cronParses(svalue)
    \/ stype = "interval" /\ ~parseInt(svalue).nan /\ parseInt(svalue).n > 0
    \/ stype = "once" /\ ~dateParse(svalue).nan

\* C24: every task in the table has a schedule type and value that parse
C24_OnlyValidSchedulesCreated ==
    \A t \in tasks : ValidSchedule(t.schedule_type, t.schedule_value)

\* the once tasks that have had a run
OnceRan == {t \in tasks : t.schedule_type = "once" /\ t.id \in sched.ran}

\* a once task that has run has no next_run and is not due
C25_RanOnceNeverDue ==
    [](\A t \in OnceRan :
          /\ t.next_run = NULL
          /\ \A i \in DOMAIN getDueTasks(tasks, now) : getDueTasks(tasks, now)[i] # t.id)

\* a once task is handed to the sandbox only if it has not run before
C25_NoSecondRun ==
    [][(sched.running = 0 /\ sched'.running # 0
          /\ getTaskById(tasks, sched'.running).schedule_type = "once")
         => sched'.running \notin sched.ran]_vars

\* the run of a once task leaves it completed, with no next_run
C25_CompletedAfterRun ==
    [][(sched.running # 0 /\ sched'.running = 0)
         => \A u \in tasks' :
               (u.id = sched.running /\ u.schedule_type = "once")
                  => (u.next_run = NULL /\ u.status = "completed")]_vars

\* C25: a once task runs at most once: its run leaves it completed with a
\* null next_run, and no command applied afterwards makes it due again
C25_OnceRunsAtMostOnce ==
    C25_RanOnceNeverDue /\ C25_NoSecondRun /\ C25_CompletedAfterRun

\* the once task ran, was resumed to active, and a later tick found nothing due
C25_Witness ==
    /\ 1 \in sched.ran
    /\ getTaskById(tasks, 1).status = "active"
    /\ getTaskById(tasks, 1).next_run = NULL
    /\ sched.pc = "run" /\ sched.due = <<>> /\ sched.running = 0

\* the tasks the due query is to return
DueSet ==
    {t \in tasks : t.status = "active" /\ t.next_run # NULL /\ t.next_run <= now}

Distinct(entries) ==
    \A i, j \in DOMAIN entries :
        i # j => normalizeJid(entries[i]) # normalizeJid(entries[j])

\* C26: each normalized identity occurs at most once across the owner, the
\* family list and the friends list
C26_IdentityUnique ==
    LET registry == registryFile.content IN
    /\ Distinct(registry.family)
    /\ Distinct(registry.friends)
    /\ \A i \in DOMAIN registry.family :
          ~SeqHas(registry.friends, normalizeJid(registry.family[i]))
    /\ registry.owner # NoJid
          => /\ ~SeqHas(registry.family, normalizeJid(registry.owner))
             /\ ~SeqHas(registry.friends, normalizeJid(registry.owner))

\* C27: once an owner is set no operation changes it: initializeOwner
\* throws, removeUser of the owner throws, and both leave users.json as it was
C27_OwnerKept ==
    [][registryFile.content.owner # NoJid
         => /\ registryFile'.content.owner = registryFile.content.owner
            /\ lastOp'.op = "initializeOwner"
                  => (lastOp'.ret = "throw" /\ registryFile' = registryFile)
            /\ (/\ lastOp'.op = "removeUser"
                /\ normalizeJid(lastOp'.jid) = normalizeJid(registryFile.content.owner))
                  => (lastOp'.ret = "throw" /\ registryFile' = registryFile)]_vars

\* initializeOwner was called for another identity while an owner was set
C27_Witness ==
    /\ registryFile.content.owner # NoJid
    /\ lastOp.op = "initializeOwner" /\ lastOp.ret = "throw"
    /\ normalizeJid(lastOp.jid) # normalizeJid(registryFile.content.owner)

\* the container paths of the mount list built last
MountedAt == {run.mount.mounts[i].containerPath : i \in DOMAIN run.mount.mounts}

\* C28: a friend mount list has no project root and no vault, a family mount
\* list no project root and no private vault, and every mount list has the
\* group workspace, the session directory and the group's command directory
C28_MountsByTier ==
    run.mount.built
       => /\ run.mount.tier = "friend"
               => MountedAt \cap {"/workspace/project", "/workspace/vaults/private",
                                  "/workspace/vaults/main"} = {}
          /\ run.mount.tier = "family"
               => MountedAt \cap {"/workspace/project",
                                  "/workspace/vaults/private"} = {}
          /\ (MountedAt \cap {"/workspace/project", "/workspace/vaults/private"} # {})
               => run.mount.tier = "owner"
          /\ \A i \in DOMAIN run.mount.mounts :
                run.mount.mounts[i].hostPath = ProjectRoot => run.mount.tier = "owner"
          /\ {"/workspace/group", "/home/node/.claude", "/workspace/ipc"}
                \subseteq MountedAt
          /\ \E i \in DOMAIN run.mount.mounts :
                /\ run.mount.mounts[i].containerPath = "/workspace/ipc"
                /\ run.mount.mounts[i].hostPath = IpcDir(run.mount.folder)

\* a friend-tier invocation in the main group, with both vaults enabled and
\* valid, got neither of them
C28_Witness ==
    /\ run.mount.built /\ run.mount.tier = "friend" /\ run.mount.isMain
    /\ run.vaultConfig = VaultConfig(Vault(TRUE, VaultPath), Vault(TRUE, VaultPath))
    /\ run.mount.fsAtBuild = run.hostFs
    /\ Len(run.mount.mounts) >= 3

\* the vault and extra mounts of the mount list built last
VaultOrExtraMounts ==
    {run.mount.mounts[i] : i \in DOMAIN run.mount.mounts}
      \ {m \in {run.mount.mounts[i] : i \in DOMAIN run.mount.mounts} :
            m.containerPath \in {"/workspace/project", "/workspace/group",
                                 "/workspace/global", "/home/node/.claude",
                                 "/workspace/ipc", "/workspace/env-dir"}}

\* C29: when the mount list was built, the path of each of its vault and
\* extra mounts resolved, and the resolved path, in lower case, held no
\* blocked pattern
C29_NoBlockedRealPath ==
    run.mount.built
       => \A m \in VaultOrExtraMounts :
             LET resolved == realpathSync(run.mount.fsAtBuild, m.hostPath) IN
             /\ resolved.code = "ok"
             /\ ~containsBlocked(resolved.path)

\* the private vault is configured as a link that leads to /.SSH, and the
\* owner's mount list was built without it
C29_Witness ==
    /\ run.mount.built /\ run.mount.tier = "owner"
    /\ run.vaultConfig.privateVault = Vault(TRUE, LinkPath)
    /\ ~containsBlocked(LinkPath)
    /\ run.mount.fsAtBuild = run.hostFs
    /\ run.hostFs.link = [code |-> "ok", target |-> UpperSshPath]
    /\ "/workspace/vaults/private" \notin MountedAt

\* the session directory of the mount list built last
SessionDirMounted ==
    LET i == CHOOSE k \in DOMAIN run.mount.mounts :
                 run.mount.mounts[k].containerPath = "/home/node/.claude"
    IN run.mount.mounts[i].hostPath

\* C31: an owner invocation gets the owner session directory, a family
\* invocation the family one, and a friend invocation a directory that is
\* neither of the two nor the friend directory of another group folder
C31_SessionDirByTierAndFolder ==
    run.mount.built
       => /\ run.mount.tier = "owner"
               => SessionDirMounted = <<"data", "sessions", "owner", ".claude">>
          /\ run.mount.tier = "family"
               => SessionDirMounted = <<"data", "sessions", "family", ".claude">>
          /\ run.mount.tier = "friend"
               => /\ SessionDirMounted # <<"data", "sessions", "owner", ".claude">>
                  /\ SessionDirMounted # <<"data", "sessions", "family", ".claude">>
                  /\ \A g \in MountGroups :
                        g.folder # run.mount.folder
                           => SessionDirMounted # getSessionDirPath(g.folder, "friend")

\* the newSessionId an invocation returned last is the stored id of its folder
C32_StoredInMemory ==
    [](\A f \in SessionFolders :
          agent.lastNew[f] # "" => sessions[f] = agent.lastNew[f])

\* and, when the save went through, the id of the folder in sessions.json
C32_StoredOnDisk ==
    [](\A f \in SessionFolders :
          (agent.lastNew[f] # "" /\ agent.saved[f])
             => sessionsFile[f] = agent.lastNew[f])

\* an invocation passes the stored id of its folder
C32_PassedToNext ==
    [](agent.pc = "running" => agent.sessionId = sessions[agent.folder])

\* a result without newSessionId changes neither sessions nor sessions.json
C32_KeptWithoutNewId ==
    [][(agent' # agent /\ agent'.last = "return" /\ agent'.out = "")
         => (sessions' = sessions /\ sessionsFile' = sessionsFile)]_vars

WroteRegistry ==
    /\ lastOp.op \in {"initializeOwner", "addUser", "removeUser"}
    /\ lastOp.ret \in {"ok", "true"}

\* C33: a successful registry write leaves no cache entry behind, and the
\* getUserTier call that follows it answers from the written registry
C33_WriteInvalidatesCache ==
    /\ [](WroteRegistry => ~registryCache.present)
    /\ [][(WroteRegistry /\ lastOp'.op = "getUserTier")
            => lastOp'.ret = getUserTierFromRegistry(normalizeJid(lastOp'.jid),
                                                     registryFile.content)]_vars

\* a user was added while a cache entry was live, and the cache is empty
C33_Witness ==
    /\ lastOp.op = "addUser" /\ lastOp.ret = "true"
    /\ now > 0
    /\ registryFile.content.owner # NoJid
    /\ Len(registryFile.content.family) = 1
    /\ ~registryCache.present

\* the tier a getUserTier call would return
TierRead(cache, file, nowT, jid) == getUserTierCached(cache, file, nowT, jid).ret

\* C40: a registry write that throws leaves the tier that getUserTier returns
\* for every identity as it was before the call
C40_FailedWriteChangesNoTier ==
    [][(lastOp'.op \in {"initializeOwner", "addUser", "removeUser"}
          /\ lastOp'.ret = "throw")
         => \A j \in CacheJids :
               TierRead(registryCache', registryFile', now', j)
                  = TierRead(registryCache, registryFile, now, j)]_vars

\* C34: the channel an effect is routed to comes from the registered-groups
\* registry: a task created by schedule_task is stored for a registered
\* folder with the JID registered for that folder, and a message file is
\* delivered only to a channel the registry holds
C34_RoutedThroughRegistry ==
    [][(ipcLast' # ipcLast /\ ~ipcLast'.threw)
         => /\ \A t \in tasks' \ tasks :
                 ipcLast'.data.type = "schedule_task" =>
                 \E i \in DOMAIN registeredGroups :
                    /\ registeredGroups[i].folder = t.group_folder
                    /\ registeredGroups[i].jid = t.chat_jid
            /\ ipcLast'.sentTo \subseteq RegisteredJids]_vars

\* C35: when the participant list of a group chat cannot be fetched, the
\* message is dropped whatever the sender's tier: no sandbox is started and
\* nothing is sent
C35_MetadataFailureDrops ==
    pm.gate = "error" =>
        /\ pm.pc = "done"
        /\ ~pm.spawned
        /\ pm.sent = {}

\* the owner wrote the trigger phrase in a registered group chat, the fetch
\* of the participants failed, and the message was dropped
C35_Witness ==
    /\ pm.gate = "error"
    /\ pm.msg.chat_jid.domain = "g.us"
    /\ pm.group # NoGroup
    /\ pm.senderTier = "owner"
    /\ TriggerMatches(pm.msg.content)
    /\ pm.outcome = "metadata-error"
    /\ ~pm.spawned

(***************************************************************************)
(* A sandbox run and its command channel: processMessage starts the        *)
(* sandbox with the effective tier, the sandbox writes command files into   *)
(* the directory mounted at /workspace/ipc, and the drain pass handles     *)
(* them while the run goes on                                              *)
(***************************************************************************)
NewUserJid == Jid("u3", "", PhoneDomain)

\* the commands the running sandbox writes
SandboxTaskFiles ==
    {PlainCmd("refresh_groups"), RegisterCmd(NewJid, "new"),
     UserCmd("add_user", NewUserJid, "family"), TaskCmd("cancel_task", 1)}

\* the sandbox of the turn in progress writes a file into its IPC mount,
\* data/ipc/<group.folder>
AgentWritesCommand(queue, data) ==
    /\ pm.pc = "agent"
    /\ ipcFiles = {}
    /\ fileSeq < MaxFiles
    /\ fileSeq' = fileSeq + 1
    /\ ipcFiles' = ipcFiles \cup {File(fileSeq + 1, pm.group.folder, queue, data)}
    /\ fileLog' = [fileLog EXCEPT ![fileSeq + 1] =
                      [@ EXCEPT !.ns = pm.group.folder, !.ranAs = pm.context]]
    /\ UNCHANGED <<regVars, msgVars, tasks, nextTaskId, quarantine, ipcLast, ipcPass>>
    /\ UNCHANGED extVars

InitSandbox ==
    /\ registryFile = [status |-> "ok",
                       content |-> [defaultRegistry EXCEPT !.owner = OwnerJid,
                                                           !.family = <<GuestJid>>]]
    /\ lastOp = Op("init", NoJid, "", "")
    /\ registeredGroups = InitGroupsIpc
    /\ lidToPhoneMap = [l \in LidLocals |-> NoJid]
    /\ strangerCache = EmptyCache
    /\ now = 0
    /\ pm = PmIdle
    /\ tasks = InitTasksIpc
    /\ nextTaskId = 3
    /\ ipcFiles = {}
    /\ quarantine = {}
    /\ fileSeq = 0
    /\ fileLog = NoLog
    /\ ipcLast = NoLast
    /\ ipcPass = PassIdle
    /\ ExtIdle

NextSandbox ==
    \/ \E sd \in {OwnerJid, GuestJid} :
          ProcessMessageBegin(Msg(MainJid, sd, "@Andy hello"))
    \/ ProcessMessageMetadataFails
    \/ ProcessMessageMetadata(<<OwnerJid, GuestJid>>)
    \/ AgentWritesCommand("messages", MessageCmd(FamJid))
    \/ \E d \in SandboxTaskFiles : AgentWritesCommand("tasks", d)
    \/ \E o \in {"response", "null"} : ProcessMessageAgentDone(o)
    \/ IpcPassStart
    \/ IpcHandleMessageFile
    \/ IpcMessagesDone
    \/ \E ok \in BOOLEAN : IpcHandleTaskFile(ok)
    \/ IpcTasksDone

SpecSandbox == InitSandbox /\ [][NextSandbox]_vars

\* owner above family above friend
TierRank(tier) == CASE tier = "owner" -> 3 [] tier = "family" -> 2 [] OTHER -> 1

\* C36: a command written by a sandbox is authorized at no tier above the
\* effective tier the sandbox ran with; a command of a sandbox that ran below
\* owner causes no sync, no change of the principal registry or of the
\* registered groups, and no change to a task of another group
C36_NoEscalationThroughCommands ==
    [][(ipcLast' # ipcLast /\ ipcLast'.queue = "tasks"
          /\ fileLog[ipcLast'.id].ranAs # "")
         => LET L == ipcLast'
                ranAs == fileLog[L.id].ranAs
            IN /\ TierRank(L.tier) <= TierRank(ranAs)
               /\ (ranAs # "owner" /\ L.data.type \in AdminCommandTypes) =>
                     /\ registeredGroups' = registeredGroups
                     /\ registryFile' = registryFile
                     /\ ~L.synced
               /\ (ranAs # "owner" /\ CrossNamespace(L, tasks)) => tasks' = tasks]_vars

\* C37: a Stranger Gate decision reflects the registry as it is when the
\* decision is taken: a group with a participant the registry does not hold
\* (one just removed, say) is not admitted, whatever the cache holds
C37_GateReflectsRegistry ==
    [][(gateCall' # gateCall)
         => ((\E i \in DOMAIN gateCall'.participants :
                 getUserTier(normalizeJid(gateCall'.participants[i])) = "stranger")
               => gateCall'.result)]_vars

\* a command file is being read, or has been read, by more than one pass
ReadTwice == \E id \in 1..MaxFiles : fileLog[id].reads > 1

\* C38: at most one drain pass is running or pending at any time, a pass is
\* scheduled only by a step that ends the running one (at its normal end and
\* where the base directory cannot be read), and no command file is read by
\* two passes
C38_PassesNeverOverlap ==
    /\ [](ipcPass.pending + ipcPass.running <= 1 /\ ~ReadTwice)
    /\ [][ipcPass'.pending > ipcPass.pending
            => (ipcPass.running = 1 /\ ipcPass'.running = 0)]_vars

\* a pass ended where the base directory could not be read; the pass it
\* scheduled is running, no timer is pending, and it has read a file
C38_Witness ==
    /\ ipcPass.dirError
    /\ ipcPass.running = 1 /\ ipcPass.pending = 0
    /\ \E i \in 1..MaxFiles : fileLog[i].reads = 1 /\ i \notin QueueIds

\* C39: the per-chat agent timestamp moves only when a turn ends with a
\* response, and after such a turn the rows its prompt was built from are
\* past the timestamp: the query of a later turn for that chat returns none
\* of them
C39_PromptedOnce ==
    [][/\ lastAgentTimestamp' # lastAgentTimestamp
            => (pm.pc = "agent" /\ pm'.outcome = "response")
       /\ (pm.pc = "agent" /\ pm'.pc = "done" /\ pm'.outcome = "response")
            => getMessagesSince(messages', pm.msg.chat_jid,
                   sinceTimestampOf(lastAgentTimestamp', pm.msg.chat_jid))
                 \cap pm.prompt = {}]_vars

====
